---- MODULE Spec2Model ----
(***************************************************************************)
(* A model of the sandbox management layer of codeit:                      *)
(*   python/docker_manager.py  DockerEnvironmentManager                    *)
(*   python/learn_python.py    main / run_in_managed_environment           *)
(*                                                                         *)
(* Spec      the manager's methods as sequential code (a program counter   *)
(*           and a stack of return labels) run against a docker daemon,    *)
(*           plus the background sync thread of an interactive session.    *)
(* SpecPull  sync_from_container at the level of files and their contents. *)
(* SpecMain  the loop of main() over the requested demo modules.           *)
(* SpecProbe the probes and _run_docker_command called on their own.       *)
(***************************************************************************)
EXTENDS Integers, Sequences, FiniteSets, TLC

VARIABLES
    container,     \* the docker container named container_name: [state, user, mode]
    image,         \* whether the docker image image_name exists
    copy_mode,     \* self.copy_mode
    pc,            \* position of the calling thread
    stack,         \* return labels of the calls in progress, innermost first
    fn,            \* the public method the caller invoked
    ret,           \* value of the last boolean-valued method that returned
    start_result,  \* start_container's local `result` (of `docker start`)
    lastProbe,     \* last is_container_running() of this call, "none" after a state-changing command
    nRestart,      \* restart_container() executions in this call
    nRecreate,     \* `docker create` commands issued by the self-heal in this call
    verifyFailed,  \* the probe after start_container's `docker start` returned False
    healFailed,    \* the probe at the end of restart_container returned False
    cc,            \* what the last create_container() saw and did
    interactive,   \* run_command_in_container's `interactive` argument
    cmd_result,    \* the `result` of the user's command, as returned to the caller
    execRan,       \* the user's command was executed in the sandbox in this call
    execRc,        \* the exit code it ended with
    pending,       \* an exception is propagating through run_interactive_with_sync's finally
    sync_active,   \* the threading.Event of run_interactive_with_sync
    wpc,           \* position of the sync_periodically thread
    nWorkers,      \* sync threads started in this call
    cleared,       \* the finally block has executed sync_active.clear() in this call
    mainPull,      \* the calling thread is inside sync_from_container, past its guards
    script_path,   \* run_python_script's `script_path`, <<>> in any other call
    args,          \* run_python_script's `*args`
    events,        \* what this call did to the sandbox so far, in order
    sbox,          \* content of each file the sandboxed program writes, 0 when not written yet
    host,          \* content of each file under project_root, 0 when it does not exist
    ppc,           \* position inside sync_from_container
    quiet,         \* its `quiet` argument
    files_found,   \* the part of `files_found` the loop of 529 has not visited yet
    success,       \* its `success`
    files_copied,  \* its `files_copied`
    new_files,     \* its `new_files`
    pull_ret,      \* the value it returned
    notices,       \* relative paths it printed as "New file"
    cpLog,         \* sandbox paths `docker cp` was issued for, over all passes
    modified,      \* this pass changed the content of a host file
    clean,         \* every scan and copy of this pass succeeded so far
    prevClean,     \* the pass before this one returned with every scan and copy succeeded
    prevReturned,  \* the pass before this one returned
    since1,        \* the sandbox was written to since this pass began
    since2,        \* the sandbox was written to since the pass before this one began
    functions_to_run,  \* main(): the module keys the loop of 663 has not visited yet
    mpc,               \* main(): position
    log,               \* main(): the modules run so far, each with how its run ended
    no_docker,         \* --no-docker
    force_docker,      \* --force-docker
    cm,                \* --cm / --copy-mode
    interactive_mode,  \* check_interactive_mode.interactive_mode
    snippet_mode,      \* _snippet_mode
    probe,             \* the last direct call of a probe or of _run_docker_command, with its outcome
    rebuild,           \* setup_environment: its `rebuild` argument, and whether this call built the image
    snip,              \* learn_python.py: the snippet globals and the files snippet_section wrote
    mm,                \* MicromambaManager: its last call, the process it ran and what it returned
    sess,              \* an interactive copy-mode session with the files its pulls copy
    lru,               \* modules/challenges_2.py: an LRUCache
    cb,                \* modules/challenges_2.py: a CircuitBreaker and the clock
    rl                 \* modules/challenges_2.py: a SlidingWindowRateLimiter and the clock

lifecycleVars == <<container, image, copy_mode, pc, stack, fn, ret, start_result,
                   lastProbe, nRestart, nRecreate, verifyFailed, healFailed, cc>>
sessionVars == <<interactive, cmd_result, execRan, execRc, pending, sync_active, wpc,
                 nWorkers, cleared, mainPull, script_path, args, events>>
pullVars == <<sbox, host, ppc, quiet, files_found, success, files_copied, new_files,
              pull_ret, notices, cpLog, modified, clean, prevClean, prevReturned,
              since1, since2>>
mainVars == <<functions_to_run, mpc, log, no_docker, force_docker, cm,
              interactive_mode, snippet_mode>>
dockerVars == <<lifecycleVars, sessionVars, rebuild>>
libVars == <<snip, mm, sess, lru, cb, rl>>
notDocker == <<pullVars, mainVars, probe, libVars>>
notPull == <<dockerVars, mainVars, probe, libVars>>
notMain == <<dockerVars, pullVars, probe, libVars>>
notProbe == <<dockerVars, pullVars, mainVars, libVars>>
managerVars == <<dockerVars, pullVars, mainVars, probe>>
notSnip == <<managerVars, mm, sess, lru, cb, rl>>
notMicromamba == <<managerVars, snip, sess, lru, cb, rl>>
notOverlap == <<managerVars, snip, mm, lru, cb, rl>>
notLRU == <<managerVars, snip, mm, sess, cb, rl>>
notBreaker == <<managerVars, snip, mm, sess, lru, rl>>
notLimiter == <<managerVars, snip, mm, sess, lru, cb>>
vars == <<lifecycleVars, sessionVars, pullVars, mainVars, probe, rebuild, libVars>>

-----------------------------------------------------------------------------
(* Users: the `uid:gid` strings a container can have been created with.    *)
CurUser == "1000:1000"
Users == {"1000:1000", "0:0"}

(* The four sandbox states the daemon can show for the container name;     *)
(* "wedged" is listed by `docker ps` but fails `docker exec`.              *)
ContainerStates == {"absent", "stopped", "running", "wedged"}
Absent == [state |-> "absent", user |-> "", mode |-> ""]
Containers ==
    {Absent} \cup [state : ContainerStates \ {"absent"}, user : Users, mode : {"mount", "copy"}]

(* How one subprocess.run of the docker CLI can end: the command does its  *)
(* work, exits non-zero without effect, or cannot be launched at all.      *)
Faults == {"ok", "fail", "nolaunch"}
Proc(rc, out) == [launched |-> TRUE, returncode |-> rc, stdout |-> out]
NoLaunch == [launched |-> FALSE, returncode |-> 0, stdout |-> ""]
Cli(f, rc, out) ==
    IF f = "nolaunch" THEN NoLaunch
    ELSE IF f = "fail" THEN Proc(1, "")
    ELSE Proc(rc, out)

(* Exit codes of the program run in the sandbox; 42 asks the outer loop to *)
(* end all sessions.                                                       *)
ExitAllSessions == 42
ExitCodes == {0, 1, ExitAllSessions}

(* Python values returned by _run_docker_command.                          *)
None == [type |-> "None", returncode |-> 0, stdout |-> ""]
Raise == [type |-> "Raise", returncode |-> 0, stdout |-> ""]
Truthy(r) == r.type # "None"
IsNone(r) == r.type = "None"

(* _run_docker_command: only CalledProcessError is caught, and it is       *)
(* returned; a launch failure (FileNotFoundError, OSError) propagates.     *)
_run_docker_command(p, check) ==
    IF ~p.launched THEN Raise
    ELSE IF check /\ p.returncode # 0
         THEN [type |-> "CalledProcessError", returncode |-> p.returncode, stdout |-> p.stdout]
         ELSE [type |-> "CompletedProcess", returncode |-> p.returncode, stdout |-> p.stdout]

(* The docker CLI, as far as the manager reads it.                         *)
docker_ps_q(c, f) == Cli(f, 0, IF c.state \in {"running", "wedged"} THEN "id" ELSE "")
docker_ps_aq(c, f) == Cli(f, 0, IF c.state # "absent" THEN "id" ELSE "")
docker_exec_test(c, f) == Cli(f, IF c.state = "running" THEN 0 ELSE 1, "")
docker_inspect_user(c, f) == Cli(f, IF c.state # "absent" THEN 0 ELSE 1, c.user)
docker_images_q(i, f) == Cli(f, 0, IF i THEN "id" ELSE "")
docker_info(f) == Cli(f, 0, "")

docker_start(c, f, health) ==
    IF f = "ok" /\ c.state = "stopped" THEN [c EXCEPT !.state = health] ELSE c
docker_start_proc(c, f) == Cli(f, IF c.state # "absent" THEN 0 ELSE 1, "")
docker_rm_f(c, f) == IF f = "ok" THEN Absent ELSE c
docker_rm_f_proc(c, f) == Cli(f, IF c.state # "absent" THEN 0 ELSE 1, "")
docker_create(c, i, f, user, mode) ==
    IF f = "ok" /\ c.state = "absent" /\ i
    THEN [state |-> "stopped", user |-> user, mode |-> mode]
    ELSE c
docker_create_proc(c, i, f) == Cli(f, IF c.state = "absent" /\ i THEN 0 ELSE 1, "")
docker_stop(c, f) ==
    IF f = "ok" /\ c.state \in {"running", "wedged"} THEN [c EXCEPT !.state = "stopped"] ELSE c
docker_stop_proc(c, f) == Cli(f, IF c.state # "absent" THEN 0 ELSE 1, "")
docker_rm(c, f) == IF f = "ok" /\ c.state = "stopped" THEN Absent ELSE c
docker_rm_proc(c, f) == Cli(f, IF c.state = "stopped" THEN 0 ELSE 1, "")
docker_rmi(i, c, f) == IF f = "ok" /\ c.state = "absent" THEN FALSE ELSE i
docker_rmi_proc(i, c, f) == Cli(f, IF i /\ c.state = "absent" THEN 0 ELSE 1, "")
docker_build(i, f) == IF f = "ok" THEN TRUE ELSE i
docker_build_proc(f) == Cli(f, 0, "")

(* Probes. A probe's value is [raised, val].                               *)
Val(b) == [raised |-> FALSE, val |-> b]
Exc == [raised |-> TRUE, val |-> FALSE]

container_exists(c, f) ==
    LET result == _run_docker_command(docker_ps_aq(c, f), TRUE)
    IN  IF result.type = "Raise" THEN Exc
        ELSE Val(Truthy(result) /\ result.stdout # "")

is_container_running(c, f1, f2) ==
    LET result == _run_docker_command(docker_ps_q(c, f1), TRUE)
        test_result == _run_docker_command(docker_exec_test(c, f2), FALSE)
    IN  IF result.type = "Raise" THEN Exc
        ELSE IF ~Truthy(result) \/ result.stdout = "" THEN Val(FALSE)
        ELSE IF test_result.type = "Raise" THEN Exc
        ELSE Val(~IsNone(test_result) /\ test_result.returncode = 0)

-----------------------------------------------------------------------------
(* Control: calls, returns and exceptions of the calling thread.           *)
Return(v) ==
    /\ ret' = v
    /\ IF stack = <<>>
       THEN pc' = "done" /\ stack' = stack
       ELSE pc' = Head(stack) /\ stack' = Tail(stack)
Raised == pc' = "raised" /\ stack' = <<>> /\ ret' = ret
Call(label, back) == pc' = label /\ stack' = <<back>> \o stack /\ ret' = ret
Goto(label) == pc' = label /\ stack' = stack /\ ret' = ret

Bool(b) == IF b THEN "True" ELSE "False"
InRestart == \E i \in 1..Len(stack) : stack[i] = "rc_created"
NoCC == [returned |-> FALSE, existed |-> FALSE, recorded |-> "", rm |-> FALSE,
         rm_ok |-> FALSE, create |-> FALSE, create_ok |-> FALSE, user |-> ""]

world == <<container, image>>
history == <<lastProbe, nRestart, nRecreate, verifyFailed, healFailed>>

Idle == pc \in {"idle", "done", "raised"} /\ wpc \in {"none", "exited"}

NoRebuild == [requested |-> FALSE, built |-> FALSE]
NoScript == script_path' = <<>> /\ args' = <<>>

(* What every public method starts from: nothing of an earlier call left.  *)
Enter(name, label, back) ==
    /\ Idle
    /\ fn' = name
    /\ pc' = label
    /\ stack' = back
    /\ ret' = FALSE
    /\ start_result' = None
    /\ lastProbe' = "none"
    /\ nRestart' = 0
    /\ nRecreate' = 0
    /\ verifyFailed' = FALSE
    /\ healFailed' = FALSE
    /\ cc' = NoCC
    /\ cmd_result' = None
    /\ execRan' = FALSE
    /\ execRc' = 0
    /\ pending' = FALSE
    /\ sync_active' = FALSE
    /\ wpc' = "none"
    /\ nWorkers' = 0
    /\ cleared' = FALSE
    /\ mainPull' = FALSE
    /\ events' = <<>>
    /\ UNCHANGED notDocker

-----------------------------------------------------------------------------
(* create_container, docker_manager.py 100-135 (with 137-188).             *)

call_create_container ==
    /\ Enter("create_container", "cc_enter", <<>>)
    /\ UNCHANGED <<world, copy_mode, interactive>>
    /\ NoScript
    /\ rebuild' = NoRebuild

(* Variant: any existing container is reused, whatever its Config.User.    *)
create_container_enter_any_user ==
    /\ pc = "cc_enter"
    /\ \E f1 \in Faults, f2 \in Faults :
         LET exists == container_exists(container, f1)
             inspect_result == _run_docker_command(docker_inspect_user(container, f2), TRUE)
             seen == [NoCC EXCEPT !.recorded = container.user]
         IN  IF exists.raised
             THEN Raised /\ cc' = seen
             ELSE IF ~exists.val
             THEN Goto("cc_create") /\ cc' = seen
             ELSE IF inspect_result.type = "Raise"
             THEN Raised /\ cc' = [seen EXCEPT !.existed = TRUE]
             ELSE IF Truthy(inspect_result)
             THEN Return(TRUE) /\ cc' = [seen EXCEPT !.existed = TRUE, !.returned = TRUE]
             ELSE Goto("cc_rm") /\ cc' = [seen EXCEPT !.existed = TRUE]
    /\ UNCHANGED <<world, copy_mode, fn, start_result, history, sessionVars>>
    /\ UNCHANGED <<rebuild, notDocker>>

(* 116-131: look for the container, compare its Config.User with uid:gid.  *)
create_container_enter ==
    /\ pc = "cc_enter"
    /\ \E f1 \in Faults, f2 \in Faults :
         LET exists == container_exists(container, f1)
             inspect_result == _run_docker_command(docker_inspect_user(container, f2), TRUE)
             seen == [NoCC EXCEPT !.recorded = container.user]
         IN  IF exists.raised
             THEN Raised /\ cc' = seen
             ELSE IF ~exists.val
             THEN Goto("cc_create") /\ cc' = seen
             ELSE IF inspect_result.type = "Raise"
             THEN Raised /\ cc' = [seen EXCEPT !.existed = TRUE]
             ELSE IF Truthy(inspect_result) /\ inspect_result.stdout = CurUser
             THEN Return(TRUE) /\ cc' = [seen EXCEPT !.existed = TRUE, !.returned = TRUE]
             ELSE Goto("cc_rm") /\ cc' = [seen EXCEPT !.existed = TRUE]
    /\ UNCHANGED <<world, copy_mode, fn, start_result, history, sessionVars>>
    /\ UNCHANGED <<rebuild, notDocker>>

(* 130: docker rm -f of the container with the wrong user; result unused.  *)
create_container_remove ==
    /\ pc = "cc_rm"
    /\ \E f \in Faults :
         IF f = "nolaunch"
         THEN Raised /\ UNCHANGED container
         ELSE Goto("cc_create") /\ container' = docker_rm_f(container, f)
    /\ cc' = [cc EXCEPT !.rm = TRUE, !.rm_ok = (container' = Absent)]
    /\ lastProbe' = "none"
    /\ UNCHANGED <<image, copy_mode, fn, start_result, nRestart, nRecreate,
                   verifyFailed, healFailed, sessionVars>>
    /\ UNCHANGED <<rebuild, notDocker>>

(* 132-135, 137-188: docker create --user uid:gid, with or without the     *)
(* bind mount; both variants return `result is not None`.                  *)
create_container_create ==
    /\ pc = "cc_create"
    /\ \E f \in Faults :
         LET mode == IF copy_mode THEN "copy" ELSE "mount"
             created == _run_docker_command(docker_create_proc(container, image, f), TRUE)
         IN  IF created.type = "Raise"
             THEN Raised /\ UNCHANGED container /\ cc' = [cc EXCEPT !.create = TRUE, !.user = CurUser]
             ELSE /\ Return(~IsNone(created))
                  /\ container' = docker_create(container, image, f, CurUser, mode)
                  /\ cc' = [cc EXCEPT !.create = TRUE, !.user = CurUser, !.returned = TRUE,
                                      !.create_ok = (created.type = "CompletedProcess")]
    /\ lastProbe' = "none"
    /\ nRecreate' = IF InRestart THEN nRecreate + 1 ELSE nRecreate
    /\ UNCHANGED <<image, copy_mode, fn, start_result, nRestart,
                   verifyFailed, healFailed, sessionVars>>
    /\ UNCHANGED <<rebuild, notDocker>>

-----------------------------------------------------------------------------
(* start_container, docker_manager.py 190-211.                             *)

call_start_container ==
    /\ Enter("start_container", "sc_enter", <<>>)
    /\ UNCHANGED <<world, copy_mode, interactive>>
    /\ NoScript
    /\ rebuild' = NoRebuild

(* 192-197: already running and responsive? else create it when missing.   *)
start_container_enter ==
    /\ pc = "sc_enter"
    /\ \E f1 \in Faults, f2 \in Faults, f3 \in Faults :
         LET running == is_container_running(container, f1, f2)
             exists == container_exists(container, f3)
         IN  IF running.raised
             THEN Raised /\ UNCHANGED lastProbe
             ELSE /\ lastProbe' = Bool(running.val)
                  /\ IF running.val THEN Return(TRUE)
                     ELSE IF exists.raised THEN Raised
                     ELSE IF ~exists.val THEN Call("cc_enter", "sc_created")
                     ELSE Goto("sc_start")
    /\ UNCHANGED <<world, copy_mode, fn, start_result, nRestart, nRecreate,
                   verifyFailed, healFailed, cc, sessionVars>>
    /\ UNCHANGED <<rebuild, notDocker>>

(* 196-197: `if not self.create_container(): return False`.                *)
start_container_created ==
    /\ pc = "sc_created"
    /\ IF ~ret THEN Return(FALSE) ELSE Goto("sc_start")
    /\ UNCHANGED <<world, copy_mode, fn, start_result, history, cc, sessionVars>>
    /\ UNCHANGED <<rebuild, notDocker>>

(* 199-204: docker start, then sleep.                                      *)
start_container_start ==
    /\ pc = "sc_start"
    /\ \E f \in Faults, health \in {"running", "wedged"} :
         LET r == _run_docker_command(docker_start_proc(container, f), TRUE)
         IN  IF r.type = "Raise"
             THEN Raised /\ UNCHANGED <<container, start_result>>
             ELSE /\ Goto("sc_verify")
                  /\ container' = docker_start(container, f, health)
                  /\ start_result' = r
    /\ lastProbe' = "none"
    /\ UNCHANGED <<image, copy_mode, fn, nRestart, nRecreate, verifyFailed,
                   healFailed, cc, sessionVars>>
    /\ UNCHANGED <<rebuild, notDocker>>

(* Variant: the probe after `docker start` is made but not acted upon.     *)
start_container_verify_unchecked ==
    /\ pc = "sc_verify"
    /\ \E f1 \in Faults, f2 \in Faults :
         LET running == is_container_running(container, f1, f2)
         IN  IF running.raised
             THEN Raised /\ UNCHANGED <<lastProbe, verifyFailed>>
             ELSE /\ lastProbe' = Bool(running.val)
                  /\ verifyFailed' = ~running.val
                  /\ Return(~IsNone(start_result))
    /\ UNCHANGED <<world, copy_mode, fn, start_result, nRestart, nRecreate,
                   healFailed, cc, sessionVars>>
    /\ UNCHANGED <<rebuild, notDocker>>

(* 206-211: verify; unresponsive -> `return self.restart_container()`, a   *)
(* tail call: restart_container returns to start_container's caller.       *)
start_container_verify ==
    /\ pc = "sc_verify"
    /\ \E f1 \in Faults, f2 \in Faults :
         LET running == is_container_running(container, f1, f2)
         IN  IF running.raised
             THEN Raised /\ UNCHANGED <<lastProbe, verifyFailed>>
             ELSE /\ lastProbe' = Bool(running.val)
                  /\ verifyFailed' = ~running.val
                  /\ IF ~running.val THEN Goto("rc_enter")
                     ELSE Return(~IsNone(start_result))
    /\ UNCHANGED <<world, copy_mode, fn, start_result, nRestart, nRecreate,
                   healFailed, cc, sessionVars>>
    /\ UNCHANGED <<rebuild, notDocker>>

-----------------------------------------------------------------------------
(* restart_container, docker_manager.py 213-228.                           *)

(* 218: is there a container to remove?                                    *)
restart_container_enter ==
    /\ pc = "rc_enter"
    /\ nRestart' = nRestart + 1
    /\ \E f \in Faults :
         LET exists == container_exists(container, f)
         IN  IF exists.raised THEN Raised
             ELSE IF exists.val THEN Goto("rc_rm")
             ELSE Call("cc_enter", "rc_created")
    /\ UNCHANGED <<world, copy_mode, fn, start_result, lastProbe, nRecreate,
                   verifyFailed, healFailed, cc, sessionVars>>
    /\ UNCHANGED <<rebuild, notDocker>>

(* 219, 222: docker rm -f (result unused), then create_container().        *)
restart_container_remove ==
    /\ pc = "rc_rm"
    /\ \E f \in Faults :
         IF f = "nolaunch"
         THEN Raised /\ UNCHANGED container
         ELSE Call("cc_enter", "rc_created") /\ container' = docker_rm_f(container, f)
    /\ lastProbe' = "none"
    /\ UNCHANGED <<image, copy_mode, fn, start_result, nRestart, nRecreate,
                   verifyFailed, healFailed, cc, sessionVars>>
    /\ UNCHANGED <<rebuild, notDocker>>

(* 222, 228: `if self.create_container(): ... return False`.               *)
restart_container_created ==
    /\ pc = "rc_created"
    /\ IF ret THEN Goto("rc_start") ELSE Return(FALSE)
    /\ UNCHANGED <<world, copy_mode, fn, start_result, history, cc, sessionVars>>
    /\ UNCHANGED <<rebuild, notDocker>>

(* 223-225: docker start (result unused), then sleep.                      *)
restart_container_start ==
    /\ pc = "rc_start"
    /\ \E f \in Faults, health \in {"running", "wedged"} :
         IF f = "nolaunch"
         THEN Raised /\ UNCHANGED container
         ELSE Goto("rc_verify") /\ container' = docker_start(container, f, health)
    /\ lastProbe' = "none"
    /\ UNCHANGED <<image, copy_mode, fn, start_result, nRestart, nRecreate,
                   verifyFailed, healFailed, cc, sessionVars>>
    /\ UNCHANGED <<rebuild, notDocker>>

(* Variant: an unresponsive container after the self-heal is healed again. *)
restart_container_verify_again ==
    /\ pc = "rc_verify"
    /\ \E f1 \in Faults, f2 \in Faults :
         LET running == is_container_running(container, f1, f2)
         IN  IF running.raised
             THEN Raised /\ UNCHANGED <<lastProbe, healFailed>>
             ELSE /\ lastProbe' = Bool(running.val)
                  /\ healFailed' = ~running.val
                  /\ IF ~running.val /\ nRestart < 2 THEN Goto("rc_enter")
                     ELSE Return(running.val)
    /\ UNCHANGED <<world, copy_mode, fn, start_result, nRestart, nRecreate,
                   verifyFailed, cc, sessionVars>>
    /\ UNCHANGED <<rebuild, notDocker>>

(* 226: `return self.is_container_running()`.                              *)
restart_container_verify ==
    /\ pc = "rc_verify"
    /\ \E f1 \in Faults, f2 \in Faults :
         LET running == is_container_running(container, f1, f2)
         IN  IF running.raised
             THEN Raised /\ UNCHANGED <<lastProbe, healFailed>>
             ELSE /\ lastProbe' = Bool(running.val)
                  /\ healFailed' = ~running.val
                  /\ Return(running.val)
    /\ UNCHANGED <<world, copy_mode, fn, start_result, nRestart, nRecreate,
                   verifyFailed, cc, sessionVars>>
    /\ UNCHANGED <<rebuild, notDocker>>

-----------------------------------------------------------------------------
(* stop_container 230-237, remove_container 239-248.                       *)

(* 232-233: nothing to stop unless the container is running.               *)
stop_container_enter ==
    /\ pc = "st_enter"
    /\ \E f1 \in Faults, f2 \in Faults :
         LET running == is_container_running(container, f1, f2)
         IN  IF running.raised
             THEN Raised /\ UNCHANGED lastProbe
             ELSE /\ lastProbe' = Bool(running.val)
                  /\ IF ~running.val THEN Return(TRUE) ELSE Goto("st_stop")
    /\ UNCHANGED <<world, copy_mode, fn, start_result, nRestart, nRecreate,
                   verifyFailed, healFailed, cc, sessionVars>>
    /\ UNCHANGED <<rebuild, notDocker>>

(* 235-237: docker stop.                                                   *)
stop_container_stop ==
    /\ pc = "st_stop"
    /\ \E f \in Faults :
         LET r == _run_docker_command(docker_stop_proc(container, f), TRUE)
         IN  IF r.type = "Raise"
             THEN Raised /\ UNCHANGED container
             ELSE Return(~IsNone(r)) /\ container' = docker_stop(container, f)
    /\ lastProbe' = "none"
    /\ UNCHANGED <<image, copy_mode, fn, start_result, nRestart, nRecreate,
                   verifyFailed, healFailed, cc, sessionVars>>
    /\ UNCHANGED <<rebuild, notDocker>>

(* 241-242: stop it first when it is running.                              *)
remove_container_enter ==
    /\ pc = "rm_enter"
    /\ \E f1 \in Faults, f2 \in Faults :
         LET running == is_container_running(container, f1, f2)
         IN  IF running.raised
             THEN Raised /\ UNCHANGED lastProbe
             ELSE /\ lastProbe' = Bool(running.val)
                  /\ IF running.val THEN Call("st_enter", "rm_check") ELSE Goto("rm_check")
    /\ UNCHANGED <<world, copy_mode, fn, start_result, nRestart, nRecreate,
                   verifyFailed, healFailed, cc, sessionVars>>
    /\ UNCHANGED <<rebuild, notDocker>>

(* 244-248: docker rm (no -f) when the container exists.                   *)
remove_container_remove ==
    /\ pc = "rm_check"
    /\ \E f1 \in Faults, f2 \in Faults :
         LET exists == container_exists(container, f1)
             r == _run_docker_command(docker_rm_proc(container, f2), TRUE)
         IN  IF exists.raised
             THEN Raised /\ UNCHANGED <<container, lastProbe>>
             ELSE IF ~exists.val
             THEN Return(TRUE) /\ UNCHANGED <<container, lastProbe>>
             ELSE IF r.type = "Raise"
             THEN Raised /\ UNCHANGED <<container, lastProbe>>
             ELSE /\ Return(~IsNone(r))
                  /\ container' = docker_rm(container, f2)
                  /\ lastProbe' = "none"
    /\ UNCHANGED <<image, copy_mode, fn, start_result, nRestart, nRecreate,
                   verifyFailed, healFailed, cc, sessionVars>>
    /\ UNCHANGED <<rebuild, notDocker>>

-----------------------------------------------------------------------------
(* setup_environment, docker_manager.py 371-415.                           *)

(* 52-60: `docker --version`, then `docker info` must exit 0.              *)
is_docker_available(f1, f2) ==
    LET version == _run_docker_command(Cli(f1, 0, ""), TRUE)
        info == _run_docker_command(docker_info(f2), FALSE)
    IN  IF version.type = "Raise" THEN Exc
        ELSE IF ~Truthy(version) THEN Val(FALSE)
        ELSE IF info.type = "Raise" THEN Exc
        ELSE Val(~IsNone(info) /\ info.returncode = 0)

(* 62-65 *)
image_exists(i, f) ==
    LET r == _run_docker_command(docker_images_q(i, f), TRUE)
    IN  IF r.type = "Raise" THEN Exc ELSE Val(Truthy(r) /\ r.stdout # "")

(* 373-382: docker must be available; store copy_mode; rebuild or not.     *)
call_setup_environment ==
    /\ \E copy \in BOOLEAN, again \in BOOLEAN, f1 \in Faults, f2 \in Faults :
         LET available == is_docker_available(f1, f2)
         IN  /\ Enter("setup_environment",
                      IF available.raised THEN "raised"
                      ELSE IF ~available.val THEN "done"
                      ELSE IF again THEN "se_rebuild" ELSE "se_image", <<>>)
             /\ copy_mode' = IF ~available.raised /\ available.val THEN copy ELSE copy_mode
             /\ rebuild' = [requested |-> again, built |-> FALSE]
    /\ UNCHANGED <<world, interactive>>
    /\ NoScript

(* 386-390: remove the container when it exists.                           *)
setup_environment_rebuild ==
    /\ pc = "se_rebuild"
    /\ \E f1 \in Faults, f2 \in Faults, f3 \in Faults :
         LET exists == container_exists(container, f1)
             running == is_container_running(container, f2, f3)
         IN  IF exists.raised THEN Raised /\ UNCHANGED lastProbe
             ELSE IF ~exists.val THEN Goto("se_rmi") /\ UNCHANGED lastProbe
             ELSE IF running.raised THEN Raised /\ UNCHANGED lastProbe
             ELSE /\ lastProbe' = Bool(running.val)
                  /\ IF running.val THEN Call("st_enter", "se_stopped")
                     ELSE Call("rm_enter", "se_rmi")
    /\ UNCHANGED <<world, copy_mode, fn, start_result, nRestart, nRecreate,
                   verifyFailed, healFailed, cc, sessionVars>>
    /\ UNCHANGED <<rebuild, notDocker>>

(* 390: self.remove_container() after self.stop_container().               *)
setup_environment_stopped ==
    /\ pc = "se_stopped"
    /\ Call("rm_enter", "se_rmi")
    /\ UNCHANGED <<world, copy_mode, fn, start_result, history, cc, sessionVars>>
    /\ UNCHANGED <<rebuild, notDocker>>

(* 393-399: docker rmi when the image exists; a failure is only printed.   *)
setup_environment_rmi ==
    /\ pc = "se_rmi"
    /\ \E f1 \in Faults, f2 \in Faults :
         LET exists == image_exists(image, f1)
         IN  IF exists.raised \/ (exists.val /\ f2 = "nolaunch")
             THEN Raised /\ UNCHANGED <<image, lastProbe>>
             ELSE IF ~exists.val
             THEN Goto("se_image") /\ UNCHANGED <<image, lastProbe>>
             ELSE /\ Goto("se_image")
                  /\ image' = docker_rmi(image, container, f2)
                  /\ lastProbe' = "none"
    /\ UNCHANGED <<container, copy_mode, fn, start_result, nRestart, nRecreate,
                   verifyFailed, healFailed, cc, sessionVars>>
    /\ UNCHANGED <<rebuild, notDocker>>

(* 402-408: build the image when it is missing (build_image, 85-98,        *)
(* returns `result is not None`), then start_container().                  *)
setup_environment_image ==
    /\ pc = "se_image"
    /\ \E f1 \in Faults, f2 \in Faults :
         LET exists == image_exists(image, f1)
             built == _run_docker_command(docker_build_proc(f2), TRUE)
         IN  IF exists.raised
             THEN Raised /\ UNCHANGED <<image, lastProbe, rebuild>>
             ELSE IF exists.val
             THEN Call("sc_enter", "se_started") /\ UNCHANGED <<image, lastProbe, rebuild>>
             ELSE IF built.type = "Raise"
             THEN Raised /\ UNCHANGED <<image, lastProbe, rebuild>>
             ELSE /\ image' = docker_build(image, f2)
                  /\ rebuild' = [rebuild EXCEPT !.built = (f2 = "ok")]
                  /\ lastProbe' = "none"
                  /\ IF IsNone(built)
                     THEN Return(FALSE)
                     ELSE Call("sc_enter", "se_started")
    /\ UNCHANGED <<container, copy_mode, fn, start_result, nRestart, nRecreate,
                   verifyFailed, healFailed, cc, sessionVars>>
    /\ UNCHANGED notDocker

(* 408-415: the value of start_container() is the value returned.          *)
setup_environment_started ==
    /\ pc = "se_started"
    /\ Return(ret)
    /\ UNCHANGED <<world, copy_mode, fn, start_result, history, cc, sessionVars>>
    /\ UNCHANGED <<rebuild, notDocker>>

-----------------------------------------------------------------------------
(* The probes and _run_docker_command called on their own, 25-83. What is  *)
(* kept of a call: the faults of its commands, whether the second command  *)
(* was reached, and how the call ended.                                    *)
NoProbe ==
    [name |-> "none", check |-> FALSE, f1 |-> "ok", f2 |-> "ok", second |-> FALSE,
     raised |-> FALSE, val |-> FALSE, type |-> "None", returncode |-> 0]
Probed(name, f1, f2, second, outcome) ==
    [NoProbe EXCEPT !.name = name, !.f1 = f1, !.f2 = f2, !.second = second,
                    !.raised = outcome.raised, !.val = outcome.val]

(* 25-50, for a command that exits with rc when it can be launched.        *)
call_run_docker_command ==
    /\ \E f \in {"ok", "nolaunch"}, rc \in ExitCodes, check \in BOOLEAN :
         LET result == _run_docker_command(Cli(f, rc, ""), check)
         IN  probe' = [NoProbe EXCEPT !.name = "_run_docker_command", !.check = check,
                                      !.f1 = f, !.raised = (result.type = "Raise"),
                                      !.val = (result.type # "Raise" /\ Truthy(result)),
                                      !.type = result.type,
                                      !.returncode = result.returncode]
    /\ UNCHANGED notProbe

(* 52-60 *)
call_is_docker_available ==
    /\ \E f1 \in Faults, f2 \in Faults :
         probe' = Probed("is_docker_available", f1, f2, f1 # "nolaunch",
                         is_docker_available(f1, f2))
    /\ UNCHANGED notProbe

(* 62-65 *)
call_image_exists ==
    /\ \E f \in Faults :
         probe' = Probed("image_exists", f, "ok", FALSE, image_exists(image, f))
    /\ UNCHANGED notProbe

(* 67-70 *)
call_container_exists ==
    /\ \E f \in Faults :
         probe' = Probed("container_exists", f, "ok", FALSE, container_exists(container, f))
    /\ UNCHANGED notProbe

(* 72-83: the `docker exec` test is reached when `docker ps -q` listed the *)
(* container.                                                              *)
call_is_container_running ==
    /\ \E f1 \in Faults, f2 \in Faults :
         probe' = Probed("is_container_running", f1, f2,
                         f1 = "ok" /\ container.state \in {"running", "wedged"},
                         is_container_running(container, f1, f2))
    /\ UNCHANGED notProbe

-----------------------------------------------------------------------------
(* run_command_in_container, docker_manager.py 250-279.                    *)

(* `docker exec [-it] <container> /opt/conda/activate_env.sh bash -c       *)
(* <command>`: the program's own exit code when the exec reaches it.       *)
docker_exec_command(f, rc) == Cli(f, rc, "")

(* run_python_script 336-349. A path or an argument is the sequence of its *)
(* pieces, a command the sequence of its parts.                            *)
ProjectRoot == <<"/", "home", "/", "codeit">>
Scripts ==
    {ProjectRoot \o <<"/", "python", "/", "learn_python.py">>, <<"/", "tmp", "/", "demo.py">>}
ArgLists ==
    { << <<"--functions">>, <<"basic">> >>,
      << <<"--functions">>, <<"data", " ", "set">> >>,
      << <<"--functions">>, <<"basic">>, <<"--interactive">> >>,
      << <<"-i">>, <<"--functions">>, <<"basic">> >> }

(* The path as it is, as if 337-341 were not there.                        *)
relative_to_nowhere(path, root) == path

(* 337-341: Path.relative_to, or the file name when the script is not      *)
(* under the project root.                                                 *)
relative_to(path, root) ==
    IF Len(path) > Len(root) + 1 /\ SubSeq(path, 1, Len(root) + 1) = root \o <<"/">>
    THEN SubSeq(path, Len(root) + 2, Len(path))
    ELSE <<path[Len(path)]>>

(* 344-346: the parts joined with blanks, a part with a blank in quotes.   *)
Quoted(part) ==
    IF \E i \in 1..Len(part) : part[i] = " " THEN <<"\"">> \o part \o <<"\"">> ELSE part
Command(script, arglist) ==
    LET cmd_parts == << <<"python">>, relative_to(script, ProjectRoot) >> \o arglist
    IN  [i \in 1..Len(cmd_parts) |-> Quoted(cmd_parts[i])]

(* 349 *)
is_interactive(arglist) ==
    \E i \in 1..Len(arglist) : arglist[i] \in {<<"--interactive">>, <<"-i">>}

(* The calling thread's events: the sandbox confirmed ready, the user's    *)
(* command handed to `docker exec`, a push, a pull.                        *)
Ev(op) == << <<op>> >>
ExecEv ==
    Ev("exec") \o (IF script_path = <<>> THEN Ev("command") ELSE Command(script_path, args))
Did(evs, op) == \E i \in 1..Len(evs) : evs[i][1] = <<op>>

(* Where run_command_in_container returns to: its caller, or 357 of        *)
(* run_python_script when that is the caller and a pull is due.            *)
CommandReturns ==
    /\ pc' = IF fn = "run_python_script" /\ copy_mode /\ ~interactive
             THEN "rps_pull" ELSE "done"
    /\ stack' = <<>>
    /\ ret' = ret

(* 252: `if not self.start_container()`.                                   *)
call_run_command_in_container ==
    /\ Enter("run_command_in_container", "sc_enter", <<"rcc_started">>)
    /\ interactive' \in BOOLEAN
    /\ UNCHANGED <<world, copy_mode>>
    /\ NoScript
    /\ rebuild' = NoRebuild

(* 252-279 without the test of 252-253: the command is handed to docker    *)
(* exec whatever start_container() returned.                               *)
run_command_in_container_exec_unconfirmed ==
    /\ pc \in {"rcc_started", "rcc_restarted"}
    /\ \E f \in Faults, rc \in ExitCodes :
         LET r == _run_docker_command(docker_exec_command(f, rc), ~interactive)
             ran == /\ execRan' = (execRan \/ f = "ok")
                    /\ execRc' = IF f = "ok" THEN rc ELSE execRc
                    /\ events' = Append(events, Ev("ready")) \o <<ExecEv>>
         IN  IF FALSE
             THEN /\ CommandReturns
                  /\ cmd_result' = IF pc = "rcc_started" THEN None ELSE cmd_result
                  /\ UNCHANGED <<execRan, execRc, events>>
             ELSE IF r.type = "Raise"
             THEN /\ Raised
                  /\ events' = Append(events, Ev("ready"))
                  /\ UNCHANGED <<cmd_result, execRan, execRc>>
             ELSE IF pc = "rcc_started" /\ IsNone(r) /\ ~interactive
             THEN Call("rc_enter", "rcc_restarted") /\ cmd_result' = r /\ ran
             ELSE /\ CommandReturns
                  /\ cmd_result' = r
                  /\ ran
    /\ UNCHANGED <<world, copy_mode, fn, start_result, history, cc, interactive,
                   pending, sync_active, wpc, nWorkers, cleared, mainPull, script_path,
                   args>>
    /\ UNCHANGED <<rebuild, notDocker>>

(* 252-279. At "rcc_restarted" the retry of 273-277 continues after        *)
(* restart_container() returned.                                           *)
run_command_in_container_exec ==
    /\ pc \in {"rcc_started", "rcc_restarted"}
    /\ \E f \in Faults, rc \in ExitCodes :
         LET r == _run_docker_command(docker_exec_command(f, rc), ~interactive)
             ran == /\ execRan' = (execRan \/ f = "ok")
                    /\ execRc' = IF f = "ok" THEN rc ELSE execRc
                    /\ events' = Append(events, Ev("ready")) \o <<ExecEv>>
         IN  IF ~ret
             THEN /\ CommandReturns
                  /\ cmd_result' = IF pc = "rcc_started" THEN None ELSE cmd_result
                  /\ UNCHANGED <<execRan, execRc, events>>
             ELSE IF r.type = "Raise"
             THEN /\ Raised
                  /\ events' = Append(events, Ev("ready"))
                  /\ UNCHANGED <<cmd_result, execRan, execRc>>
             ELSE IF pc = "rcc_started" /\ IsNone(r) /\ ~interactive
             THEN Call("rc_enter", "rcc_restarted") /\ cmd_result' = r /\ ran
             ELSE /\ CommandReturns
                  /\ cmd_result' = r
                  /\ ran
    /\ UNCHANGED <<world, copy_mode, fn, start_result, history, cc, interactive,
                   pending, sync_active, wpc, nWorkers, cleared, mainPull, script_path,
                   args>>
    /\ UNCHANGED <<rebuild, notDocker>>

-----------------------------------------------------------------------------
(* run_interactive_with_sync, docker_manager.py 281-326.                   *)

call_run_interactive_with_sync ==
    /\ Enter("run_interactive_with_sync", "sc_enter", <<"ri_started">>)
    /\ interactive' = TRUE
    /\ UNCHANGED <<world, copy_mode>>
    /\ NoScript
    /\ rebuild' = NoRebuild

(* 288-315: return None without a sandbox; else set the Event and start    *)
(* the sync_periodically thread.                                           *)
run_interactive_with_sync_started ==
    /\ pc = "ri_started"
    /\ IF ~ret
       THEN /\ pc' = "done" /\ cmd_result' = None
            /\ UNCHANGED <<sync_active, wpc, nWorkers, events>>
       ELSE /\ pc' = "ri_exec"
            /\ sync_active' = TRUE
            /\ wpc' = "w_loop"
            /\ nWorkers' = nWorkers + 1
            /\ events' = Append(events, Ev("ready"))
            /\ UNCHANGED cmd_result
    /\ UNCHANGED <<world, copy_mode, stack, fn, ret, start_result, history, cc,
                   interactive, execRan, execRc, pending, cleared, mainPull, script_path,
                   args>>
    /\ UNCHANGED <<rebuild, notDocker>>

(* Variant: the foreground command outside the try block, so that its     *)
(* exception reaches the caller at once.                                   *)
run_interactive_with_sync_exec_no_finally ==
    /\ pc = "ri_exec"
    /\ \E f \in Faults, rc \in ExitCodes :
         LET r == _run_docker_command(docker_exec_command(f, rc), FALSE)
         IN  IF r.type = "Raise"
             THEN /\ pending' = TRUE /\ pc' = "raised"
                  /\ UNCHANGED <<cmd_result, execRan, execRc, events>>
             ELSE /\ cmd_result' = r
                  /\ execRan' = (f = "ok")
                  /\ execRc' = IF f = "ok" THEN rc ELSE execRc
                  /\ events' = Append(events, ExecEv)
                  /\ pc' = "ri_finally"
                  /\ UNCHANGED pending
    /\ UNCHANGED <<world, copy_mode, stack, fn, ret, start_result, history, cc,
                   interactive, sync_active, wpc, nWorkers, cleared, mainPull, script_path,
                   args>>
    /\ UNCHANGED <<rebuild, notDocker>>

(* 317-320: the foreground command, check=False; an exception leaves       *)
(* through the finally block.                                              *)
run_interactive_with_sync_exec ==
    /\ pc = "ri_exec"
    /\ \E f \in Faults, rc \in ExitCodes :
         LET r == _run_docker_command(docker_exec_command(f, rc), FALSE)
         IN  IF r.type = "Raise"
             THEN pending' = TRUE /\ UNCHANGED <<cmd_result, execRan, execRc, events>>
             ELSE /\ cmd_result' = r
                  /\ execRan' = (f = "ok")
                  /\ execRc' = IF f = "ok" THEN rc ELSE execRc
                  /\ events' = Append(events, ExecEv)
                  /\ UNCHANGED pending
    /\ pc' = "ri_finally"
    /\ UNCHANGED <<world, copy_mode, stack, fn, ret, start_result, history, cc,
                   interactive, sync_active, wpc, nWorkers, cleared, mainPull, script_path,
                   args>>
    /\ UNCHANGED <<rebuild, notDocker>>

(* 323: sync_active.clear(); the thread is not joined.                     *)
run_interactive_with_sync_finally ==
    /\ pc = "ri_finally"
    /\ sync_active' = FALSE
    /\ cleared' = TRUE
    /\ pc' = "ri_final_sync"
    /\ UNCHANGED <<world, copy_mode, stack, fn, ret, start_result, history, cc,
                   interactive, cmd_result, execRan, execRc, pending, wpc, nWorkers,
                   mainPull, script_path, args, events>>
    /\ UNCHANGED <<rebuild, notDocker>>

(* sync_from_container 496-502: nothing to do in mount mode (True), or     *)
(* without a container (False); "copy" when the scan and the copies follow.*)
sync_from_container_guard(c, copy, f) ==
    LET exists == container_exists(c, f)
    IN  IF ~copy THEN "True"
        ELSE IF exists.raised THEN "Raise"
        ELSE IF ~exists.val THEN "False"
        ELSE "copy"

(* How the caller of run_interactive_with_sync gets control back after the *)
(* finally block: by the block's own exception, by the pending one, or by  *)
(* the `return result` of 320.                                             *)
FinallyEnds(raised) ==
    /\ pc' = IF raised \/ pending THEN "raised" ELSE "done"
    /\ UNCHANGED <<stack, ret>>

(* 325: the final sync_from_container(quiet=False) begins.                 *)
run_interactive_with_sync_final_sync ==
    /\ pc = "ri_final_sync"
    /\ \E f \in Faults :
         LET g == sync_from_container_guard(container, copy_mode, f)
         IN  IF g = "copy"
             THEN pc' = "ri_final_copy" /\ mainPull' = TRUE /\ UNCHANGED <<stack, ret>>
             ELSE FinallyEnds(g = "Raise") /\ UNCHANGED mainPull
    /\ events' = Append(events, Ev("pull"))
    /\ UNCHANGED <<world, copy_mode, fn, start_result, history, cc, interactive,
                   cmd_result, execRan, execRc, pending, sync_active, wpc, nWorkers,
                   cleared, script_path, args>>
    /\ UNCHANGED <<rebuild, notDocker>>

(* 504-572 of the final sync: the scans, makedirs and copies end, with     *)
(* True or False, or with an exception of subprocess.run or os.makedirs.   *)
run_interactive_with_sync_final_copy ==
    /\ pc = "ri_final_copy"
    /\ mainPull' = FALSE
    /\ \E raised \in BOOLEAN : FinallyEnds(raised)
    /\ UNCHANGED <<world, copy_mode, fn, start_result, history, cc, interactive,
                   cmd_result, execRan, execRc, pending, sync_active, wpc, nWorkers,
                   cleared, script_path, args, events>>
    /\ UNCHANGED <<rebuild, notDocker>>

(* sync_periodically, 301-311.                                             *)
workerUnchanged ==
    UNCHANGED <<lifecycleVars, interactive, cmd_result, execRan, execRc, pending,
                sync_active, nWorkers, cleared, mainPull, script_path, args, events,
                rebuild, notDocker>>

(* 303: `while sync_active.is_set()`, then into time.sleep(2).             *)
sync_periodically_loop ==
    /\ wpc = "w_loop"
    /\ wpc' = IF sync_active THEN "w_sleep" ELSE "exited"
    /\ workerUnchanged

(* 304-305: the sleep ends; `if sync_active.is_set()`.                     *)
sync_periodically_wake ==
    /\ wpc = "w_sleep"
    /\ wpc' = IF sync_active THEN "w_sync" ELSE "w_loop"
    /\ workerUnchanged

(* 308: self.sync_from_container(quiet=True) begins; 309-311 swallow an    *)
(* exception.                                                              *)
sync_periodically_sync ==
    /\ wpc = "w_sync"
    /\ \E f \in Faults :
         LET g == sync_from_container_guard(container, copy_mode, f)
         IN  wpc' = IF g = "copy" THEN "w_copy" ELSE "w_loop"
    /\ workerUnchanged

(* 504-572 of a background sync end, by return or by a swallowed exception.*)
sync_periodically_copy ==
    /\ wpc = "w_copy"
    /\ wpc' = "w_loop"
    /\ workerUnchanged

-----------------------------------------------------------------------------
(* run_python_script, docker_manager.py 328-362.                           *)

call_run_python_script ==
    /\ \E script \in Scripts, arglist \in ArgLists :
         /\ script_path' = script
         /\ args' = arglist
         /\ interactive' = is_interactive(arglist)
    /\ Enter("run_python_script", "rps_push", <<>>)
    /\ rebuild' = NoRebuild
    /\ UNCHANGED <<world, copy_mode>>

(* `docker cp <project_root>/. <container>:/workspace/`                    *)
docker_cp_to_proc(c, f) == Cli(f, IF c.state # "absent" THEN 0 ELSE 1, "")

(* sync_to_container, 469-492: True in mount mode, False without a         *)
(* container, else `result is not None` of the docker cp.                  *)
sync_to_container(c, copy, f1, f2) ==
    LET exists == container_exists(c, f1)
        result == _run_docker_command(docker_cp_to_proc(c, f2), TRUE)
    IN  IF ~copy THEN Val(TRUE)
        ELSE IF exists.raised THEN Exc
        ELSE IF ~exists.val THEN Val(FALSE)
        ELSE IF result.type = "Raise" THEN Exc
        ELSE Val(~IsNone(result))

(* 331-354 with sync_to_container called in either mode.                   *)
run_python_script_push_any_mode ==
    /\ pc = "rps_push"
    /\ \E f1 \in Faults, f2 \in Faults :
         LET pushed == sync_to_container(container, copy_mode, f1, f2)
         IN  IF pushed.raised
             THEN Raised /\ UNCHANGED cmd_result
             ELSE IF ~pushed.val
             THEN pc' = "done" /\ cmd_result' = None /\ UNCHANGED <<stack, ret>>
             ELSE /\ pc' = "sc_enter"
                  /\ stack' = <<IF copy_mode /\ interactive THEN "ri_started"
                                ELSE "rcc_started">>
                  /\ UNCHANGED <<ret, cmd_result>>
    /\ events' = Append(events, Ev("push"))
    /\ UNCHANGED <<world, copy_mode, fn, start_result, history, cc, interactive, execRan,
                   execRc, pending, sync_active, wpc, nWorkers, cleared, mainPull,
                   script_path, args>>
    /\ UNCHANGED <<rebuild, notDocker>>

(* 331-354: in copy mode the push, and None when it returns False; then    *)
(* the command, through run_interactive_with_sync for an interactive run   *)
(* in copy mode and through run_command_in_container otherwise.            *)
run_python_script_push ==
    /\ pc = "rps_push"
    /\ \E f1 \in Faults, f2 \in Faults :
         LET pushed == sync_to_container(container, copy_mode, f1, f2)
         IN  IF pushed.raised
             THEN Raised /\ UNCHANGED cmd_result
             ELSE IF ~pushed.val
             THEN pc' = "done" /\ cmd_result' = None /\ UNCHANGED <<stack, ret>>
             ELSE /\ pc' = "sc_enter"
                  /\ stack' = <<IF copy_mode /\ interactive THEN "ri_started"
                                ELSE "rcc_started">>
                  /\ UNCHANGED <<ret, cmd_result>>
    /\ events' = IF copy_mode THEN Append(events, Ev("push")) ELSE events
    /\ UNCHANGED <<world, copy_mode, fn, start_result, history, cc, interactive, execRan,
                   execRc, pending, sync_active, wpc, nWorkers, cleared, mainPull,
                   script_path, args>>
    /\ UNCHANGED <<rebuild, notDocker>>

(* 357-362: the pull after a non-interactive run in copy mode; False is    *)
(* only printed, and `result` is returned.                                 *)
run_python_script_pull ==
    /\ pc = "rps_pull"
    /\ \E f \in Faults, copied \in {"True", "False", "Raise"} :
         LET g == sync_from_container_guard(container, copy_mode, f)
             pulled == IF g = "copy" THEN copied ELSE g
         IN  IF pulled = "Raise" THEN Raised ELSE pc' = "done" /\ UNCHANGED <<stack, ret>>
    /\ events' = Append(events, Ev("pull"))
    /\ UNCHANGED <<world, copy_mode, fn, start_result, history, cc, interactive,
                   cmd_result, execRan, execRc, pending, sync_active, wpc, nWorkers,
                   cleared, mainPull, script_path, args>>
    /\ UNCHANGED <<rebuild, notDocker>>

-----------------------------------------------------------------------------
(* sync_from_container at the level of files, docker_manager.py 494-572.   *)
(* A path is the sequence of its pieces, so that `in`, startswith and      *)
(* slicing are computed on the text and not on a name for it.              *)

MaxVersion == 2

SnippetFile == <<"/", "workspace", "/", "practice", "/", "basic", "/", "001", ".py">>
OutputFile == <<"/", "workspace", "/", "test_output", ".txt">>
GitFile == <<"/", "workspace", "/", ".git", "/", "hooks", "/", "pre-commit", ".py">>
CacheFile == <<"/", "workspace", "/", "python", "/", "__pycache__", "/", "mod", ".py">>
PycFile == <<"/", "workspace", "/", "mod", ".pyc", ".txt">>
TmpFile == <<"/", "workspace", "/", "tmp", "/", "plot", ".py">>
CondaFile == <<"/", "workspace", "/", "opt", "/", "conda", "/", "site", ".py">>
StrayLine == <<"/", "etc", "/", "x", ".py">>

(* What the scans can report, in the order `find` lists it. The two files  *)
(* the sandboxed program writes come and change; the rest is always there. *)
Universe ==
    <<SnippetFile, GitFile, CacheFile, TmpFile, CondaFile, StrayLine, OutputFile, PycFile>>
Lines == {Universe[i] : i \in 1..Len(Universe)}
Written == {SnippetFile, OutputFile}
Present(l) == l \notin Written \/ sbox[l] > 0
Content(l) == IF l \in Written THEN sbox[l] ELSE 1

(* 506-510 *)
patterns ==
    <<".py", ".txt", ".md", ".json", ".csv", ".png", ".jpg", ".jpeg", ".gif", ".svg",
      ".html", ".pdf">>
(* The scans whose failure can be told from success: those with a match.   *)
ScannedPatterns ==
    {patterns[i] : i \in 1..Len(patterns)} \cap {l[Len(l)] : l \in Lines}

(* 514-520: `find /workspace -name '*<ext>' -type f`, check=False; a scan  *)
(* that fails prints nothing.                                              *)
find(pattern, failed) ==
    IF pattern \in failed THEN <<>>
    ELSE SelectSeq(Universe, LAMBDA l : Present(l) /\ l[Len(l)] = pattern)

RECURSIVE scan(_, _)
scan(i, failed) ==
    IF i > Len(patterns) THEN <<>>
    ELSE find(patterns[i], failed) \o scan(i + 1, failed)

(* 531, 535, 539: the filters and the relative path.                       *)
WorkspacePrefix == <<"/", "workspace", "/">>
SkipList ==
    << <<".git", "/">>, <<"__pycache__", "/">>, <<".pyc">>, <<"/", "tmp", "/">>,
       <<"/", "opt", "/", "conda", "/">> >>
StartsWith(t, pre) == Len(t) >= Len(pre) /\ SubSeq(t, 1, Len(pre)) = pre
Contains(t, sub) ==
    \E i \in 1..Len(t) : i + Len(sub) - 1 <= Len(t) /\ SubSeq(t, i, i + Len(sub) - 1) = sub
(* The filter of 531 without the list of 535.                              *)
Skipped_prefix_only(file_path) == ~StartsWith(file_path, WorkspacePrefix)
Skipped(file_path) ==
    \/ ~StartsWith(file_path, WorkspacePrefix)
    \/ \E i \in 1..Len(SkipList) : Contains(file_path, SkipList[i])
RelPath(file_path) == SubSeq(file_path, Len(WorkspacePrefix) + 1, Len(file_path))
HostPaths == {RelPath(l) : l \in Lines}

PullIdle ==
    /\ sbox \in [Written -> {0}]
    /\ host = [h \in HostPaths |-> 0]
    /\ ppc = "idle"
    /\ quiet = FALSE
    /\ files_found = <<>>
    /\ success = TRUE
    /\ files_copied = 0
    /\ new_files = 0
    /\ pull_ret = TRUE
    /\ notices = {}
    /\ cpLog = {}
    /\ modified = FALSE
    /\ clean = FALSE
    /\ prevClean = FALSE
    /\ prevReturned = FALSE
    /\ since1 = FALSE
    /\ since2 = FALSE

(* The sandboxed program writes a file (learn_python.py snippet_section,   *)
(* test_copy_mode.py): a new file or new content.                          *)
sandbox_write ==
    /\ \E l \in Written, v \in 1..MaxVersion :
         /\ sbox[l] # v
         /\ sbox' = [sbox EXCEPT ![l] = v]
    /\ since1' = TRUE
    /\ since2' = TRUE
    /\ UNCHANGED <<host, ppc, quiet, files_found, success, files_copied, new_files,
                   pull_ret, notices, cpLog, modified, clean, prevClean, prevReturned>>
    /\ UNCHANGED notPull

(* 496-527: the guards and the scans.                                      *)
sync_from_container_begin ==
    /\ ppc \in {"idle", "returned", "raised"}
    /\ \E q \in BOOLEAN, f \in Faults, failed \in SUBSET ScannedPatterns :
         LET g == sync_from_container_guard(container, copy_mode, f)
             found == scan(1, failed)
         IN  /\ quiet' = q
             /\ files_found' = IF g = "copy" THEN found ELSE <<>>
             /\ clean' = (g = "copy" /\ failed = {})
             /\ ppc' = IF g = "Raise" THEN "raised"
                       ELSE IF g = "copy" /\ found # <<>> THEN "loop"
                       ELSE "returned"
             /\ pull_ret' = (g # "False")
    /\ success' = TRUE
    /\ files_copied' = 0
    /\ new_files' = 0
    /\ notices' = {}
    /\ modified' = FALSE
    /\ prevReturned' = (ppc = "returned")
    /\ prevClean' = (ppc = "returned" /\ clean)
    /\ since1' = FALSE
    /\ since2' = since1
    /\ UNCHANGED <<sbox, host, cpLog>>
    /\ UNCHANGED notPull

(* The loop's step with every copied file announced as new, as if 543 did  *)
(* not look at the host.                                                   *)
sync_from_container_file_always_new ==
    /\ ppc = "loop"
    /\ files_found # <<>>
    /\ LET file_path == Head(files_found)
           rel_path == RelPath(file_path)
           is_new_file == TRUE
       IN  IF Skipped(file_path)
           THEN /\ files_found' = Tail(files_found)
                /\ UNCHANGED <<host, ppc, success, files_copied, new_files, notices,
                               cpLog, modified, clean>>
           ELSE \E outcome \in {"copied", "failed", "raised"} :
                /\ files_found' = IF outcome = "raised" THEN <<>> ELSE Tail(files_found)
                /\ ppc' = IF outcome = "raised" THEN "raised" ELSE ppc
                /\ host' = IF outcome = "copied"
                           THEN [host EXCEPT ![rel_path] = Content(file_path)]
                           ELSE host
                /\ modified' = (modified \/ host' # host)
                /\ cpLog' = IF outcome = "raised" THEN cpLog ELSE cpLog \cup {file_path}
                /\ success' = (success /\ outcome # "failed")
                /\ clean' = (clean /\ outcome = "copied")
                /\ files_copied' = IF outcome = "copied" THEN files_copied + 1 ELSE files_copied
                /\ new_files' = IF outcome = "copied" /\ is_new_file
                                THEN new_files + 1 ELSE new_files
                /\ notices' = IF outcome = "copied" /\ is_new_file /\ ~quiet
                              THEN notices \cup {rel_path} ELSE notices
    /\ UNCHANGED <<sbox, quiet, pull_ret, prevClean, prevReturned, since1, since2>>
    /\ UNCHANGED notPull

(* 529-564: one file of the loop. The copy can fail (check=False), and     *)
(* os.makedirs or subprocess.run can raise.                                *)
sync_from_container_file ==
    /\ ppc = "loop"
    /\ files_found # <<>>
    /\ LET file_path == Head(files_found)
           rel_path == RelPath(file_path)
           is_new_file == host[rel_path] = 0
       IN  IF Skipped(file_path)
           THEN /\ files_found' = Tail(files_found)
                /\ UNCHANGED <<host, ppc, success, files_copied, new_files, notices,
                               cpLog, modified, clean>>
           ELSE \E outcome \in {"copied", "failed", "raised"} :
                /\ files_found' = IF outcome = "raised" THEN <<>> ELSE Tail(files_found)
                /\ ppc' = IF outcome = "raised" THEN "raised" ELSE ppc
                /\ host' = IF outcome = "copied"
                           THEN [host EXCEPT ![rel_path] = Content(file_path)]
                           ELSE host
                /\ modified' = (modified \/ host' # host)
                /\ cpLog' = IF outcome = "raised" THEN cpLog ELSE cpLog \cup {file_path}
                /\ success' = (success /\ outcome # "failed")
                /\ clean' = (clean /\ outcome = "copied")
                /\ files_copied' = IF outcome = "copied" THEN files_copied + 1 ELSE files_copied
                /\ new_files' = IF outcome = "copied" /\ is_new_file
                                THEN new_files + 1 ELSE new_files
                /\ notices' = IF outcome = "copied" /\ is_new_file /\ ~quiet
                              THEN notices \cup {rel_path} ELSE notices
    /\ UNCHANGED <<sbox, quiet, pull_ret, prevClean, prevReturned, since1, since2>>
    /\ UNCHANGED notPull

(* 566-572: `return success`.                                              *)
sync_from_container_end ==
    /\ ppc = "loop"
    /\ files_found = <<>>
    /\ ppc' = "returned"
    /\ pull_ret' = success
    /\ UNCHANGED <<sbox, host, quiet, files_found, success, files_copied, new_files,
                   notices, cpLog, modified, clean, prevClean, prevReturned, since1,
                   since2>>
    /\ UNCHANGED notPull

(* learn_python.py: main() and the dispatcher run_in_managed_environment.  *)

MaxModules == 3

(* Two of the modules of modules/__init__.py 27-36, and a name that is    *)
(* none of them.                                                           *)
AVAILABLE_FUNCTIONS == {"basic", "advanced"}
Keys == AVAILABLE_FUNCTIONS \cup {"nosuch"}

RECURSIVE SeqsUpTo(_, _)
SeqsUpTo(S, n) ==
    IF n = 0 THEN {<<>>}
    ELSE LET shorter == SeqsUpTo(S, n - 1)
         IN  shorter \cup {Append(q, k) : q \in {r \in shorter : Len(r) = n - 1}, k \in S}

(* main() not running.                                                     *)
MainIdle ==
    /\ functions_to_run = <<>>
    /\ mpc = "idle"
    /\ log = <<>>
    /\ no_docker = FALSE
    /\ force_docker = FALSE
    /\ cm = FALSE
    /\ interactive_mode = FALSE
    /\ snippet_mode = FALSE

(* 603-616 and 655-660: the parsed command line.                           *)
MainArgs ==
    /\ functions_to_run \in SeqsUpTo(Keys, MaxModules)
    /\ mpc = "start"
    /\ log = <<>>
    /\ no_docker \in BOOLEAN
    /\ force_docker \in BOOLEAN
    /\ cm \in BOOLEAN
    /\ interactive_mode \in BOOLEAN
    /\ snippet_mode \in BOOLEAN

(* What one run of a module can come to. On the host: func() returns or    *)
(* raises. In the sandbox: setup_environment returns False, something      *)
(* raises, run_python_script returns None (docker_manager.py 331-334, copy *)
(* mode only), or it returns the result of the command with its exit code. *)
Outcome(kind, rc) == [kind |-> kind, returncode |-> rc]
HostOutcomes == {Outcome("returned", 0), Outcome("exception", 0)}
SandboxOutcomes(copy) ==
    {Outcome("setup_failed", 0), Outcome("exception", 0)}
        \cup (IF copy THEN {Outcome("None", 0)} ELSE {})
        \cup {Outcome("result", rc) : rc \in ExitCodes}

(* 451-470 *)
run_function_directly(o) == o.kind = "returned"

(* 488-503: the arguments handed to the script in the sandbox.             *)
ScriptArgs ==
    {"--functions"}
        \cup (IF interactive_mode THEN {"--interactive"} ELSE {})
        \cup (IF snippet_mode THEN {"--snip"} ELSE {})
        \cup (IF cm THEN {"--cm"} ELSE {})

(* 526-543 and 604-613 in the sandboxed script, given the flags of its     *)
(* command line: store_true with default=True is True with or without the  *)
(* flag, and only --no-interactive and --no-snip turn a mode off.          *)
parse_args(argv) ==
    [interactive |-> TRUE, no_interactive |-> "--no-interactive" \in argv,
     snip |-> TRUE, no_snip |-> "--no-snip" \in argv]
script_modes(argv) ==
    LET parsed == parse_args(argv)
    IN  [interactive_mode |-> parsed.interactive /\ ~parsed.no_interactive,
         _snippet_mode |-> parsed.snip /\ ~parsed.no_snip]
(* docker_manager.py 349, on the flags.                                    *)
dispatched_interactive(argv) == "--interactive" \in argv \/ "-i" \in argv

(* 472-517: True exactly when the module ran and, in the sandbox, exited   *)
(* with 0; every other outcome is False.                                   *)
InSandbox == force_docker /\ ~no_docker
run_in_managed_environment(o) ==
    IF InSandbox
    THEN o.kind = "result" /\ o.returncode = 0
    ELSE run_function_directly(o)

(* 618-660: both Docker flags, or --functions with no name, end main.      *)
main_start ==
    /\ mpc = "start"
    /\ mpc' = IF (force_docker /\ no_docker) \/ functions_to_run = <<>>
              THEN "returned" ELSE "loop"
    /\ UNCHANGED <<functions_to_run, log, no_docker, force_docker, cm, interactive_mode,
                   snippet_mode>>
    /\ UNCHANGED notMain

(* 663-677: one module of the loop, run on the host or in the sandbox;     *)
(* "Failed to run" is printed when the dispatcher returns False, and the   *)
(* loop goes on to the next module.                                        *)
main_run_function ==
    /\ mpc = "loop"
    /\ functions_to_run # <<>>
    /\ Head(functions_to_run) \in AVAILABLE_FUNCTIONS
    /\ \E o \in IF InSandbox THEN SandboxOutcomes(cm) ELSE HostOutcomes :
         log' = Append(log, [func_key |-> Head(functions_to_run),
                             sandbox |-> InSandbox,
                             args |-> IF InSandbox THEN ScriptArgs ELSE {},
                             outcome |-> o,
                             failed |-> ~run_in_managed_environment(o)])
    /\ functions_to_run' = Tail(functions_to_run)
    /\ UNCHANGED <<mpc, no_docker, force_docker, cm, interactive_mode, snippet_mode>>
    /\ UNCHANGED notMain

(* 678-680: an unknown name ends main.                                     *)
main_unknown_function ==
    /\ mpc = "loop"
    /\ functions_to_run # <<>>
    /\ Head(functions_to_run) \notin AVAILABLE_FUNCTIONS
    /\ mpc' = "returned"
    /\ UNCHANGED <<functions_to_run, log, no_docker, force_docker, cm, interactive_mode,
                   snippet_mode>>
    /\ UNCHANGED notMain

(* The loop is through.                                                    *)
main_end ==
    /\ mpc = "loop"
    /\ functions_to_run = <<>>
    /\ mpc' = "returned"
    /\ UNCHANGED <<functions_to_run, log, no_docker, force_docker, cm, interactive_mode,
                   snippet_mode>>
    /\ UNCHANGED notMain

-----------------------------------------------------------------------------
(* Snippet export, learn_python.py 33-35, 1364-1509.                       *)

MaxSnippetCalls == 4
SnippetModules == {"basic", "advanced"}

(* f'{_snippet_counter:03d}': the decimal digits, padded with zeros to     *)
(* three places and never cut.                                             *)
RECURSIVE Digits(_)
Digits(n) == IF n < 10 THEN <<n>> ELSE Digits(n \div 10) \o <<n % 10>>
Format03d(n) ==
    LET d == Digits(n)
    IN  IF Len(d) >= 3 THEN d ELSE [i \in 1..(3 - Len(d)) |-> 0] \o d

(* 33-35, and main 613 for the mode. `workspace` is                        *)
(* os.path.exists('/workspace'); `written` lists the files of the current  *)
(* module's run in the order they were written, `failed` tells whether a   *)
(* write or a copy of that run raised, `calls` counts snippet_section.     *)
SnipIdle ==
    [_snippet_mode |-> FALSE, _current_module |-> "None", _snippet_counter |-> 0,
     workspace |-> FALSE, files |-> {}, written |-> <<>>, failed |-> FALSE, calls |-> 0]

(* Variant: a new module goes on counting where the last one stopped.      *)
set_snippet_module_keep_counter ==
    /\ \E module_name \in SnippetModules :
         snip' = [snip EXCEPT !._current_module = module_name,
                              !.written = <<>>, !.failed = FALSE]
    /\ UNCHANGED notSnip

(* 1505-1509                                                               *)
set_snippet_module ==
    /\ \E module_name \in SnippetModules :
         snip' = [snip EXCEPT !._current_module = module_name,
                              !._snippet_counter = 0,
                              !.written = <<>>, !.failed = FALSE]
    /\ UNCHANGED notSnip

(* 1380-1396: the directory of the file; "denied" is the PermissionError   *)
(* of 1388 taken to /tmp, "raise" any exception that leaves the try block. *)
practice_dir(workspace, mk) ==
    IF workspace /\ mk = "denied" THEN "/tmp/practice"
    ELSE IF workspace THEN "/workspace/practice"
    ELSE "../practice"

(* 1364-1500: return when disabled (1374); else makedirs, the counter, the *)
(* file, and from /tmp the copy to /workspace/practice (1441-1462). Every  *)
(* exception ends in the handler of 1486.                                  *)
snippet_section ==
    /\ snip.calls < MaxSnippetCalls
    /\ IF ~snip._snippet_mode \/ snip._current_module = "None"
       THEN snip' = [snip EXCEPT !.calls = @ + 1]
       ELSE \E mk \in IF snip.workspace THEN {"ok", "denied", "raise"} ELSE {"ok", "raise"},
               wr \in {"ok", "raise"}, cp \in {"ok", "raise"} :
            LET counter == snip._snippet_counter + 1
                dir == practice_dir(snip.workspace, mk)
                filename == [dir |-> dir, module |-> snip._current_module,
                             name |-> Format03d(counter)]
                target_file == [filename EXCEPT !.dir = "/workspace/practice"]
                moved == dir = "/tmp/practice" /\ cp = "ok"
                final == IF moved THEN target_file ELSE filename
            IN  IF mk = "raise"
                THEN snip' = [snip EXCEPT !.calls = @ + 1]
                ELSE IF wr = "raise"
                THEN snip' = [snip EXCEPT !.calls = @ + 1, !._snippet_counter = counter,
                                          !.failed = TRUE]
                ELSE snip' = [snip EXCEPT !.calls = @ + 1, !._snippet_counter = counter,
                                          !.files = @ \cup {final},
                                          !.written = Append(@, final),
                                          !.failed = @ \/ (dir = "/tmp/practice" /\ ~moved)]
    /\ UNCHANGED notSnip

-----------------------------------------------------------------------------
(* MicromambaManager, micromamba_manager.py.                               *)

(* 119-134: use_proot is fixed by the platform at construction.            *)
MicromambaIdle ==
    [use_proot |-> FALSE, call |-> "none", cmd |-> <<>>, exists |-> TRUE,
     ran |-> FALSE, returncode |-> 0, result |-> None]

(* 198-235, and _run_in_proot 176-196 for use_proot: subprocess.run with   *)
(* check as given; CalledProcessError becomes None in both, and a launch   *)
(* failure propagates.                                                     *)
_run_command(p, capture_output, check) ==
    IF ~p.launched THEN Raise
    ELSE IF check /\ p.returncode # 0 THEN None
    ELSE [type |-> "CompletedProcess", returncode |-> p.returncode, stdout |-> ""]

MicromambaRun == << <<"micromamba">>, <<"run">>, <<"-r">>, <<".mamba">>, <<"-n">>,
                    <<"python-learning">> >>
ShellCommands == { <<"python", " ", "x.py">>, <<"exit", " ", "3">> }
Called(name, cmd, exists, p, result) ==
    mm' = [mm EXCEPT !.call = name, !.cmd = cmd, !.exists = exists,
                     !.ran = p.launched, !.returncode = p.returncode, !.result = result]

(* _run_command called on its own, with either value of check.             *)
call_run_command ==
    /\ \E command \in ShellCommands, check \in BOOLEAN, f \in Faults, rc \in ExitCodes :
         LET p == Cli(f, rc, "")
         IN  Called(IF check THEN "_run_command" ELSE "_run_command(check=False)",
                    << <<"bash">>, <<"-c">>, command >>, TRUE, p,
                    _run_command(p, TRUE, check))
    /\ UNCHANGED notMicromamba

(* 402-422: None without the environment; else `micromamba run ... python  *)
(* <script> <args>` through _run_command with its default check=True.      *)
micromamba_run_python_script ==
    /\ \E script \in Scripts, arglist \in ArgLists, exists \in BOOLEAN,
          f \in Faults, rc \in ExitCodes :
         LET p == Cli(f, rc, "")
             cmd_parts == MicromambaRun \o << <<"python">>, script >> \o arglist
         IN  IF ~exists
             THEN Called("run_python_script", <<>>, FALSE, NoLaunch, None)
             ELSE Called("run_python_script", cmd_parts, TRUE, p,
                         _run_command(p, FALSE, TRUE))
    /\ UNCHANGED notMicromamba

(* 424-443: None without the environment; interactive passes shell=True to *)
(* _run_command, which has no such parameter (TypeError); else             *)
(* `micromamba run ... bash -c <command>` with the default check=True.     *)
run_command_in_environment ==
    /\ \E command \in ShellCommands, interactive_session \in BOOLEAN, exists \in BOOLEAN,
          f \in Faults, rc \in ExitCodes :
         LET p == Cli(f, rc, "")
             cmd == MicromambaRun \o << <<"bash">>, <<"-c">>, command >>
         IN  IF ~exists
             THEN Called("run_command_in_environment", <<>>, FALSE, NoLaunch, None)
             ELSE IF interactive_session
             THEN Called("run_command_in_environment", << command >>, TRUE, NoLaunch, Raise)
             ELSE Called("run_command_in_environment", cmd, TRUE, p,
                         _run_command(p, FALSE, TRUE))
    /\ UNCHANGED notMicromamba

-----------------------------------------------------------------------------
(* run_interactive_with_sync (docker_manager.py 281-326) with its pulls    *)
(* (494-572) at the level of files: the thread of sync_periodically and    *)
(* the caller's thread each run sync_from_container, the one with          *)
(* quiet=True while the Event is set, the other with quiet=False from the  *)
(* finally block. Neither waits for the other.                             *)

Threads == {"worker", "final"}
SessionFiles == {RelPath(SnippetFile), RelPath(OutputFile)}
NoPull == [pc |-> "off", todo |-> <<>>, is_new_file |-> FALSE]

(* 298-315: the Event is set, the thread started, the command running.     *)
SessIdle ==
    [sync_active |-> TRUE, foreground |-> "running", sbox |-> {}, host |-> {},
     first |-> [f \in SessionFiles |-> "none"], announced |-> {},
     th |-> [t \in Threads |-> NoPull]]

SetOfSeq(q) == {q[i] : i \in 1..Len(q)}
ListOf(S) == CHOOSE q \in [1..Cardinality(S) -> S] : SetOfSeq(q) = S

(* The sandboxed program writes a file.                                    *)
foreground_write ==
    /\ sess.foreground = "running"
    /\ \E f \in SessionFiles \ sess.sbox : sess' = [sess EXCEPT !.sbox = @ \cup {f}]
    /\ UNCHANGED notOverlap

(* 317-325: the command ends; finally clears the Event and calls           *)
(* sync_from_container(quiet=False).                                       *)
foreground_end ==
    /\ sess.foreground = "running"
    /\ sess' = [sess EXCEPT !.foreground = "finally", !.sync_active = FALSE,
                            !.th["final"].pc = "scan"]
    /\ UNCHANGED notOverlap

(* 303-308: after the sleep, with the Event still set, the thread calls    *)
(* sync_from_container(quiet=True); with it cleared the loop ends.         *)
sync_periodically ==
    /\ sess.th["worker"].pc = "off"
    /\ sess' = [sess EXCEPT !.th["worker"].pc = IF sess.sync_active THEN "scan" ELSE "exited"]
    /\ UNCHANGED notOverlap

(* 512-523: the scans list the sandbox's files.                            *)
sync_from_container_scan ==
    /\ \E t \in Threads :
         /\ sess.th[t].pc = "scan"
         /\ sess' = [sess EXCEPT !.th[t] = [pc |-> "check", todo |-> ListOf(sess.sbox),
                                           is_new_file |-> FALSE]]
    /\ UNCHANGED notOverlap

(* 529-548: the next file; is_new_file = not os.path.exists(host_path).    *)
(* 566-572 and 326 or 303 when none is left.                               *)
sync_from_container_check ==
    /\ \E t \in Threads :
         /\ sess.th[t].pc = "check"
         /\ IF sess.th[t].todo = <<>>
            THEN sess' = [sess EXCEPT !.th[t] = NoPull,
                                     !.foreground = IF t = "final" THEN "returned" ELSE @]
            ELSE sess' = [sess EXCEPT !.th[t].pc = "copy",
                                     !.th[t].is_new_file = Head(sess.th[t].todo) \notin sess.host]
    /\ UNCHANGED notOverlap

(* 551-564: docker cp, check=False; the notice of a new file unless quiet. *)
sync_from_container_copy ==
    /\ \E t \in Threads, copied \in BOOLEAN :
         LET f == Head(sess.th[t].todo)
             quiet_pull == t = "worker"
         IN  /\ sess.th[t].pc = "copy"
             /\ sess' = [sess EXCEPT
                   !.th[t].pc = "check",
                   !.th[t].todo = Tail(@),
                   !.host = IF copied THEN @ \cup {f} ELSE @,
                   !.first[f] = IF copied /\ @ = "none"
                                THEN (IF quiet_pull THEN "quiet" ELSE "loud") ELSE @,
                   !.announced = IF copied /\ sess.th[t].is_new_file /\ ~quiet_pull
                                 THEN @ \cup {f} ELSE @]
    /\ UNCHANGED notOverlap

-----------------------------------------------------------------------------
(* modules/challenges_2.py: LRUCache, 83-115.                              *)

MaxCapacity == 2
MaxOps == 5
CacheKeys == {"a", "b", "c"}
CacheValues == {1, 2}

(* 88-91, with the clock of the operations and, for every key, when a get  *)
(* or put last touched it.                                                 *)
LRUCache(capacity) ==
    [capacity |-> capacity, cache |-> <<>>, order |-> <<>>,
     ops |-> 0, touched |-> [k \in CacheKeys |-> 0], returned |-> 0]

(* deque.remove(key): the first occurrence goes.                           *)
RECURSIVE remove(_, _)
remove(q, key) ==
    IF q = <<>> THEN <<>>
    ELSE IF Head(q) = key THEN Tail(q)
    ELSE <<Head(q)>> \o remove(Tail(q), key)

(* Variant: a get that reads the value and leaves the order alone.         *)
LRUCache_get_unmoved ==
    /\ lru.ops < MaxOps
    /\ \E key \in CacheKeys :
         IF key \in DOMAIN lru.cache
         THEN lru' = [lru EXCEPT !.ops = @ + 1, !.touched[key] = lru.ops + 1,
                                 !.returned = lru.cache[key]]
         ELSE lru' = [lru EXCEPT !.ops = @ + 1, !.returned = 0]
    /\ UNCHANGED notLRU

(* 93-99; `returned` is the value, 0 for None.                             *)
LRUCache_get ==
    /\ lru.ops < MaxOps
    /\ \E key \in CacheKeys :
         IF key \in DOMAIN lru.cache
         THEN lru' = [lru EXCEPT !.ops = @ + 1, !.touched[key] = lru.ops + 1,
                                 !.order = Append(remove(@, key), key),
                                 !.returned = lru.cache[key]]
         ELSE lru' = [lru EXCEPT !.ops = @ + 1, !.returned = 0]
    /\ UNCHANGED notLRU

(* 101-115                                                                 *)
LRUCache_put ==
    /\ lru.ops < MaxOps
    /\ \E key \in CacheKeys, value \in CacheValues :
         IF key \in DOMAIN lru.cache
         THEN lru' = [lru EXCEPT !.ops = @ + 1, !.touched[key] = lru.ops + 1,
                                 !.cache[key] = value,
                                 !.order = Append(remove(@, key), key)]
         ELSE LET full == Cardinality(DOMAIN lru.cache) >= lru.capacity
                  oldest == Head(lru.order)
                  kept == IF full THEN DOMAIN lru.cache \ {oldest} ELSE DOMAIN lru.cache
                  order == IF full THEN Tail(lru.order) ELSE lru.order
              IN  lru' = [lru EXCEPT
                      !.ops = @ + 1, !.touched[key] = lru.ops + 1,
                      !.cache = [k \in kept \cup {key} |->
                                    IF k = key THEN value ELSE lru.cache[k]],
                      !.order = Append(order, key)]
    /\ UNCHANGED notLRU

-----------------------------------------------------------------------------
(* modules/challenges_2.py: CircuitBreaker, 117-149. time.time() is a      *)
(* clock of whole seconds that never runs backwards.                       *)

MaxThreshold == 2
MaxTimeout == 2
MaxTime == 4
MaxCalls == 4

(* 122-127; last_failure_time None is -1. `pc` is "func" while the wrapped *)
(* function runs, `invoked` counts its runs, `outcome` is how the last     *)
(* call() ended.                                                           *)
CircuitBreaker(failure_threshold, recovery_timeout) ==
    [failure_threshold |-> failure_threshold, recovery_timeout |-> recovery_timeout,
     failure_count |-> 0, last_failure_time |-> -1, state |-> "CLOSED",
     now |-> 0, pc |-> "idle", calls |-> 0, invoked |-> 0, outcome |-> "none"]

breaker_tick ==
    /\ cb.now < MaxTime
    /\ cb' = [cb EXCEPT !.now = @ + 1]
    /\ UNCHANGED notBreaker

(* 129-134: an OPEN breaker raises, or after the timeout goes HALF_OPEN.   *)
CircuitBreaker_call ==
    /\ cb.pc = "idle"
    /\ cb.calls < MaxCalls
    /\ IF cb.state = "OPEN"
       THEN IF cb.now - cb.last_failure_time > cb.recovery_timeout
            THEN cb' = [cb EXCEPT !.calls = @ + 1, !.state = "HALF_OPEN", !.pc = "func"]
            ELSE cb' = [cb EXCEPT !.calls = @ + 1, !.outcome = "rejected"]
       ELSE cb' = [cb EXCEPT !.calls = @ + 1, !.pc = "func"]
    /\ UNCHANGED notBreaker

(* Variant: a success in HALF_OPEN closes the breaker and keeps the count. *)
CircuitBreaker_func_keep_count ==
    /\ cb.pc = "func"
    /\ \E ok \in BOOLEAN :
         LET failure_count == cb.failure_count + 1
         IN  IF ok
             THEN cb' = [cb EXCEPT !.pc = "idle", !.invoked = @ + 1, !.outcome = "returned",
                                   !.state = IF @ = "HALF_OPEN" THEN "CLOSED" ELSE @]
             ELSE cb' = [cb EXCEPT !.pc = "idle", !.invoked = @ + 1, !.outcome = "raised",
                                   !.failure_count = failure_count,
                                   !.last_failure_time = cb.now,
                                   !.state = IF failure_count >= cb.failure_threshold
                                             THEN "OPEN" ELSE @]
    /\ UNCHANGED notBreaker

(* 136-149: func returns, or raises an Exception.                          *)
CircuitBreaker_func ==
    /\ cb.pc = "func"
    /\ \E ok \in BOOLEAN :
         LET failure_count == cb.failure_count + 1
         IN  IF ok
             THEN cb' = [cb EXCEPT !.pc = "idle", !.invoked = @ + 1, !.outcome = "returned",
                                   !.state = IF @ = "HALF_OPEN" THEN "CLOSED" ELSE @,
                                   !.failure_count = IF cb.state = "HALF_OPEN" THEN 0 ELSE @]
             ELSE cb' = [cb EXCEPT !.pc = "idle", !.invoked = @ + 1, !.outcome = "raised",
                                   !.failure_count = failure_count,
                                   !.last_failure_time = cb.now,
                                   !.state = IF failure_count >= cb.failure_threshold
                                             THEN "OPEN" ELSE @]
    /\ UNCHANGED notBreaker

-----------------------------------------------------------------------------
(* modules/challenges_2.py: SlidingWindowRateLimiter, 40-81, with the same *)
(* clock.                                                                  *)

MaxLimit == 2
MaxWindow == 2
MaxRequests == 5

(* 45-48; `allowed` lists the times of the requests that got True.         *)
SlidingWindowRateLimiter(max_requests, window_seconds) ==
    [max_requests |-> max_requests, window_seconds |-> window_seconds, requests |-> <<>>,
     now |-> 0, calls |-> 0, allowed |-> <<>>, result |-> "none", usage |-> 0]

limiter_tick ==
    /\ rl.now < MaxTime
    /\ rl' = [rl EXCEPT !.now = @ + 1]
    /\ UNCHANGED notLimiter

(* 53-54, 63-64: popleft while the oldest is at or before now - window.    *)
RECURSIVE expired(_, _)
expired(requests, limit) ==
    IF requests # <<>> /\ Head(requests) <= limit THEN expired(Tail(requests), limit)
    ELSE requests

(* Variant: a request is let through while the log holds max_requests.     *)
allow_request_one_more ==
    /\ rl.calls < MaxRequests
    /\ LET requests == expired(rl.requests, rl.now - rl.window_seconds)
       IN  IF Len(requests) <= rl.max_requests
           THEN rl' = [rl EXCEPT !.calls = @ + 1, !.requests = Append(requests, rl.now),
                                 !.allowed = Append(@, rl.now), !.result = "True"]
           ELSE rl' = [rl EXCEPT !.calls = @ + 1, !.requests = requests,
                                 !.result = "False"]
    /\ UNCHANGED notLimiter

(* 50-60                                                                   *)
allow_request ==
    /\ rl.calls < MaxRequests
    /\ LET requests == expired(rl.requests, rl.now - rl.window_seconds)
       IN  IF Len(requests) < rl.max_requests
           THEN rl' = [rl EXCEPT !.calls = @ + 1, !.requests = Append(requests, rl.now),
                                 !.allowed = Append(@, rl.now), !.result = "True"]
           ELSE rl' = [rl EXCEPT !.calls = @ + 1, !.requests = requests,
                                 !.result = "False"]
    /\ UNCHANGED notLimiter

(* 62-67                                                                   *)
get_current_usage ==
    /\ LET requests == expired(rl.requests, rl.now - rl.window_seconds)
       IN  rl' = [rl EXCEPT !.requests = requests, !.usage = Len(requests)]
    /\ UNCHANGED notLimiter

ChallengesIdle ==
    /\ lru = LRUCache(1)
    /\ cb = CircuitBreaker(1, 1)
    /\ rl = SlidingWindowRateLimiter(1, 1)
LibIdle ==
    /\ snip = SnipIdle /\ mm = MicromambaIdle /\ sess = SessIdle
    /\ ChallengesIdle

-----------------------------------------------------------------------------
(* No method of the manager is running.                                   *)
NoCall ==
    /\ pc = "idle"
    /\ stack = <<>>
    /\ fn = "none"
    /\ ret = FALSE
    /\ start_result = None
    /\ lastProbe = "none"
    /\ nRestart = 0
    /\ nRecreate = 0
    /\ verifyFailed = FALSE
    /\ healFailed = FALSE
    /\ cc = NoCC
    /\ interactive = FALSE
    /\ cmd_result = None
    /\ execRan = FALSE
    /\ execRc = 0
    /\ pending = FALSE
    /\ sync_active = FALSE
    /\ wpc = "none"
    /\ nWorkers = 0
    /\ cleared = FALSE
    /\ mainPull = FALSE
    /\ script_path = <<>>
    /\ args = <<>>
    /\ events = <<>>

(* __init__, 16-23, in a world with any container and with or without the *)
(* image.                                                                  *)
DockerIdle ==
    /\ container \in Containers
    /\ image \in BOOLEAN
    /\ copy_mode = FALSE
    /\ NoCall

Init ==
    DockerIdle /\ PullIdle /\ MainIdle /\ probe = NoProbe /\ rebuild = NoRebuild /\ LibIdle

NextLifecycle ==
    \/ call_create_container
    \/ create_container_enter
    \/ create_container_remove
    \/ create_container_create
    \/ call_start_container
    \/ start_container_enter
    \/ start_container_created
    \/ start_container_start
    \/ start_container_verify
    \/ restart_container_enter
    \/ restart_container_remove
    \/ restart_container_created
    \/ restart_container_start
    \/ restart_container_verify
    \/ stop_container_enter
    \/ stop_container_stop
    \/ remove_container_enter
    \/ remove_container_remove
    \/ call_setup_environment
    \/ setup_environment_rebuild
    \/ setup_environment_stopped
    \/ setup_environment_rmi
    \/ setup_environment_image
    \/ setup_environment_started

NextSession ==
    \/ call_run_command_in_container
    \/ run_command_in_container_exec
    \/ call_run_interactive_with_sync
    \/ run_interactive_with_sync_started
    \/ run_interactive_with_sync_exec
    \/ run_interactive_with_sync_finally
    \/ run_interactive_with_sync_final_sync
    \/ run_interactive_with_sync_final_copy
    \/ sync_periodically_loop
    \/ sync_periodically_wake
    \/ sync_periodically_sync
    \/ sync_periodically_copy

NextScript ==
    \/ call_run_python_script
    \/ run_python_script_push
    \/ run_python_script_pull

Next ==
    \/ NextLifecycle
    \/ NextSession
    \/ NextScript

Spec == Init /\ [][Next]_vars

(* The calling thread is sequential code: a step that can be taken is      *)
(* taken. Lifecycle calls alone, as the claims on termination need them.   *)
FairLifecycle == Init /\ [][NextLifecycle]_vars /\ WF_vars(NextLifecycle)

(* Passes of sync_from_container over the files of a sandbox, in either    *)
(* mode, with or without the container.                                    *)
InitPull ==
    /\ container \in {Absent, [state |-> "running", user |-> CurUser, mode |-> "copy"]}
    /\ image = TRUE
    /\ copy_mode \in BOOLEAN
    /\ NoCall
    /\ PullIdle
    /\ MainIdle
    /\ probe = NoProbe
    /\ rebuild = NoRebuild
    /\ LibIdle

NextPull ==
    \/ sandbox_write
    \/ sync_from_container_begin
    \/ sync_from_container_file
    \/ sync_from_container_end

SpecPull == InitPull /\ [][NextPull]_vars

(* One run of main() over the requested modules.                           *)
InitMain ==
    /\ DockerIdle /\ container = Absent /\ image = TRUE /\ PullIdle /\ MainArgs
    /\ probe = NoProbe /\ rebuild = NoRebuild /\ LibIdle

NextMain ==
    \/ main_start
    \/ main_run_function
    \/ main_unknown_function
    \/ main_end

SpecMain == InitMain /\ [][NextMain]_vars

(* The probes called one after another against a daemon in any state.      *)
NextProbe ==
    \/ call_run_docker_command
    \/ call_is_docker_available
    \/ call_image_exists
    \/ call_container_exists
    \/ call_is_container_running

SpecProbe == Init /\ [][NextProbe]_vars

(* The snippet globals after main() has set the mode (613), in the sandbox *)
(* or on the host.                                                         *)
InitSnippet ==
    /\ DockerIdle /\ container = Absent /\ image = TRUE /\ PullIdle /\ MainIdle
    /\ probe = NoProbe /\ rebuild = NoRebuild
    /\ \E mode \in BOOLEAN, ws \in BOOLEAN :
         snip = [SnipIdle EXCEPT !._snippet_mode = mode, !.workspace = ws]
    /\ mm = MicromambaIdle /\ sess = SessIdle
    /\ ChallengesIdle

NextSnippet ==
    \/ set_snippet_module
    \/ snippet_section

SpecSnippet == InitSnippet /\ [][NextSnippet]_vars

(* A MicromambaManager on Termux or elsewhere.                             *)
InitMicromamba ==
    /\ DockerIdle /\ container = Absent /\ image = TRUE /\ PullIdle /\ MainIdle
    /\ probe = NoProbe /\ rebuild = NoRebuild /\ snip = SnipIdle
    /\ \E proot \in BOOLEAN : mm = [MicromambaIdle EXCEPT !.use_proot = proot]
    /\ sess = SessIdle
    /\ ChallengesIdle

NextMicromamba ==
    \/ call_run_command
    \/ micromamba_run_python_script
    \/ run_command_in_environment

SpecMicromamba == InitMicromamba /\ [][NextMicromamba]_vars

NextOverlap ==
    \/ foreground_write
    \/ foreground_end
    \/ sync_periodically
    \/ sync_from_container_scan
    \/ sync_from_container_check
    \/ sync_from_container_copy

SpecOverlap == Init /\ [][NextOverlap]_vars

ManagerIdle ==
    /\ DockerIdle /\ container = Absent /\ image = TRUE /\ PullIdle /\ MainIdle
    /\ probe = NoProbe /\ rebuild = NoRebuild
    /\ snip = SnipIdle /\ mm = MicromambaIdle /\ sess = SessIdle

(* A new LRUCache of some capacity >= 1.                                   *)
InitLRU ==
    /\ ManagerIdle
    /\ \E capacity \in 1..MaxCapacity : lru = LRUCache(capacity)
    /\ cb = CircuitBreaker(1, 1)
    /\ rl = SlidingWindowRateLimiter(1, 1)

NextLRU ==
    \/ LRUCache_get
    \/ LRUCache_put

SpecLRU == InitLRU /\ [][NextLRU]_vars

(* A new CircuitBreaker.                                                   *)
InitBreaker ==
    /\ ManagerIdle
    /\ lru = LRUCache(1)
    /\ \E failure_threshold \in 1..MaxThreshold, recovery_timeout \in 0..MaxTimeout :
         cb = CircuitBreaker(failure_threshold, recovery_timeout)
    /\ rl = SlidingWindowRateLimiter(1, 1)

NextBreaker ==
    \/ breaker_tick
    \/ CircuitBreaker_call
    \/ CircuitBreaker_func

SpecBreaker == InitBreaker /\ [][NextBreaker]_vars

(* A new SlidingWindowRateLimiter.                                         *)
InitLimiter ==
    /\ ManagerIdle
    /\ lru = LRUCache(1)
    /\ cb = CircuitBreaker(1, 1)
    /\ \E max_requests \in 0..MaxLimit, window_seconds \in 1..MaxWindow :
         rl = SlidingWindowRateLimiter(max_requests, window_seconds)

NextLimiter ==
    \/ limiter_tick
    \/ allow_request
    \/ get_current_usage

SpecLimiter == InitLimiter /\ [][NextLimiter]_vars

-----------------------------------------------------------------------------
InStartContainer ==
    pc \in {"sc_enter", "sc_created", "sc_start", "sc_verify",
            "rc_enter", "rc_rm", "rc_created", "rc_start", "rc_verify",
            "cc_enter", "cc_rm", "cc_create"}
(* C1: start_container() and setup_environment() return True only when the *)
(* last is_container_running() of the call returned True and no            *)
(* state-changing docker command was issued after it.                      *)
C1_SuccessOnlyAfterProbe ==
    (pc \in {"done", "se_started"} /\ fn \in {"start_container", "setup_environment"} /\ ret)
        => lastProbe = "True"

(* C1 witness: setup_environment() reports success after the self-heal.    *)
C1_Witness ==
    pc = "done" /\ fn = "setup_environment" /\ ret /\ verifyFailed /\ nRestart = 1

(* C2: a call whose probe fails after `docker start` and again after the   *)
(* self-heal returns False; no call runs restart_container() or the        *)
(* self-heal's `docker create` more than once; and start_container(), once *)
(* entered, returns or raises.                                             *)
C2_BoundedSelfHeal ==
    /\ [](nRestart <= 1 /\ nRecreate <= 1)
    /\ []((pc \in {"done", "se_started"} /\ verifyFailed /\ healFailed) => ~ret)
    /\ ((pc = "sc_enter") ~> ~InStartContainer)

(* C2 witness: both probes failed, one remove-and-recreate, False returned.*)
C2_Witness ==
    pc = "done" /\ fn = "start_container" /\ verifyFailed /\ healFailed
    /\ nRestart = 1 /\ nRecreate = 1 /\ ~ret

(* C3: create_container() on an existing container whose recorded user     *)
(* differs from uid:gid issues `docker rm -f` and `docker create --user    *)
(* uid:gid` (and when both succeed the container carries uid:gid); it      *)
(* returns without creating only when the recorded user equals uid:gid.    *)
C3_MismatchRecreates ==
    cc.returned =>
        /\ (cc.existed /\ cc.recorded # CurUser) => (cc.rm /\ cc.create /\ cc.user = CurUser)
        /\ (cc.existed /\ ~cc.create) => cc.recorded = CurUser
        /\ (cc.rm_ok /\ cc.create_ok /\ container.state # "absent") => container.user = CurUser

(* C3 witness: a container of 0:0 was found, removed and created anew.     *)
C3_Witness ==
    /\ cc.returned /\ cc.existed /\ cc.recorded = "0:0"
    /\ cc.rm_ok /\ cc.create_ok /\ container.user = CurUser

(* C4: whenever start_container() or setup_environment() reports success,  *)
(* the container it leaves for command dispatch carries the current        *)
(* uid:gid (a container found with another user was recreated first).      *)
C4_MismatchNeverUsed ==
    (pc = "done" /\ fn \in {"start_container", "setup_environment"} /\ ret)
        => (container.state # "absent" => container.user = CurUser)

(* C5: the final sync_from_container(quiet=False) of                       *)
(* run_interactive_with_sync never scans or copies while a background      *)
(* sync_from_container(quiet=True) of the worker is still doing so.        *)
C5_FinalPullAlone == ~(mainPull /\ wpc = "w_copy")

(* C6: one sync thread per session, and once the finally block has cleared *)
(* the flag the thread begins no further background pull.                  *)
C6_NoPullAfterClear ==
    /\ [](nWorkers <= 1)
    /\ [][cleared => ~(wpc = "w_sync" /\ wpc' = "w_copy")]_vars

C8_DeniedNeverCopied ==
    \A l \in Lines :
        LET denied ==
              \/ Contains(l, <<".git", "/">>)
              \/ Contains(l, <<"__pycache__", "/">>)
              \/ Contains(l, <<".pyc">>)
              \/ Contains(l, <<"/", "tmp", "/">>)
              \/ Contains(l, <<"/", "opt", "/", "conda", "/">>)
              \/ SubSeq(l, 1, 3) # <<"/", "workspace", "/">>
        IN  denied => (l \notin cpLog /\ host[RelPath(l)] = 0)

(* A quiet pass whose scans all succeeded, so that every denied line was   *)
(* reported, and that copied the two other files.                          *)
C8_Witness ==
    /\ ppc = "returned"
    /\ quiet
    /\ clean
    /\ files_copied = 2
    /\ cpLog = Written

(* C9: an interactive run whose command was executed in the sandbox        *)
(* returns to its caller a result whose returncode is the command's exit   *)
(* code (42 included), not None and not an exception.                      *)
C9_ExitCodeReported ==
    (/\ pc \in {"done", "raised"}
     /\ fn \in {"run_command_in_container", "run_interactive_with_sync"}
     /\ interactive
     /\ execRan)
        => (pc = "done" /\ ~IsNone(cmd_result) /\ cmd_result.returncode = execRc)

(* C10: once a run in the sandbox has exited with the "exit all sessions"  *)
(* code, main runs no further module.                                      *)
C10_ExitAllSkipsRemaining ==
    \A i \in 1..Len(log) :
        (/\ log[i].sandbox
         /\ log[i].outcome.kind = "result"
         /\ log[i].outcome.returncode = ExitAllSessions) => i = Len(log)

(* C11: a dispatch in copy mode with non-interactive arguments does, in    *)
(* this order and at most once each, a push, the command and a pull; the   *)
(* command is `python <script relative to the project root> <args>`; and   *)
(* when the script was executed and the dispatch returned, all three were  *)
(* done and the returned result carries the script's exit code.            *)
C11_CopyModeDispatchOrder ==
    (fn = "run_python_script" /\ copy_mode /\ ~interactive) =>
        LET did == SelectSeq(events, LAMBDA e : e[1] # <<"ready">>)
            ops == [i \in 1..Len(did) |-> did[i][1][1]]
            rel == SubSeq(script_path, Len(ProjectRoot) + 2, Len(script_path))
            plain == \A i \in 1..Len(args) : \A j \in 1..Len(args[i]) : args[i][j] # " "
        IN  /\ ops \in {<<>>, <<"push">>, <<"push", "exec">>, <<"push", "pull">>,
                         <<"push", "exec", "pull">>}
            /\ \A i \in 1..Len(did) :
                   (/\ did[i][1] = <<"exec">>
                    /\ plain
                    /\ SubSeq(script_path, 1, Len(ProjectRoot)) = ProjectRoot)
                       => did[i] = << <<"exec">>, <<"python">>, rel >> \o args
            /\ (pc = "done" /\ execRan) =>
                   (/\ ops = <<"push", "exec", "pull">>
                    /\ ~IsNone(cmd_result)
                    /\ cmd_result.returncode = execRc)

(* Such a dispatch of python/learn_python.py --functions basic, returned   *)
(* with the script's exit code 42.                                         *)
C11_Witness ==
    /\ fn = "run_python_script"
    /\ copy_mode
    /\ pc = "done"
    /\ execRan
    /\ execRc = ExitAllSessions
    /\ cmd_result.returncode = ExitAllSessions
    /\ args = << <<"--functions">>, <<"basic">> >>
    /\ SelectSeq(events, LAMBDA e : e[1] # <<"ready">>)
         = << Ev("push"),
              << <<"exec">>, <<"python">>, <<"python", "/", "learn_python.py">>,
                 <<"--functions">>, <<"basic">> >>,
              Ev("pull") >>

(* C12: a dispatch that executed the program in the sandbox hands the      *)
(* program's own result to its caller, whatever the pull after it does.    *)
C12_SyncNeverMasksResult ==
    (/\ fn \in {"run_python_script", "run_interactive_with_sync"}
     /\ execRan
     /\ Did(events, "pull")
     /\ pc \in {"done", "raised"})
        => (pc = "done" /\ ~IsNone(cmd_result) /\ cmd_result.returncode = execRc)

(* C13: for a command that cannot be launched _run_docker_command does not *)
(* raise; it returns a failure value that is neither the value of a        *)
(* command that ran and exited non-zero nor that of a successful one.      *)
C13_LaunchFailureIsReturned ==
    (probe.name = "_run_docker_command" /\ probe.f1 = "nolaunch")
        => (~probe.raised /\ probe.type \notin {"CalledProcessError", "CompletedProcess"})

(* C14: a probe whose docker command could not be executed, or exited with *)
(* failure, returns a false value and does not raise.                      *)
C14_ProbeFailsFalse ==
    (/\ probe.name \in {"is_docker_available", "image_exists", "container_exists",
                        "is_container_running"}
     /\ (probe.f1 # "ok" \/ (probe.second /\ probe.f2 # "ok")))
        => (~probe.raised /\ ~probe.val)

(* C15: a command is handed to `docker exec` only after start_container()  *)
(* or restart_container() returned True in the same call, its last probe   *)
(* having found the sandbox responsive; when it returned False the call    *)
(* returns None and no command was dispatched.                             *)
C15_ExecOnlyAfterConfirmation ==
    (fn \in {"run_command_in_container", "run_interactive_with_sync", "run_python_script"})
        => /\ Did(events, "exec") => (ret /\ lastProbe = "True" /\ Did(events, "ready"))
           /\ (pc = "done" /\ ~ret) => (IsNone(cmd_result) /\ ~Did(events, "exec"))

(* A command dispatched after the self-heal made the sandbox responsive.   *)
C15_Witness ==
    /\ fn = "run_command_in_container"
    /\ pc = "done"
    /\ Did(events, "exec")
    /\ execRan
    /\ verifyFailed
    /\ nRestart = 1

(* C16, as stated: a push is made only in copy mode and only in a dispatch *)
(* with non-interactive arguments.                                         *)
C16_PushOnlyNonInteractive ==
    Did(events, "push") => (fn = "run_python_script" /\ copy_mode /\ ~interactive)

(* C16, amended: a push is made only by run_python_script, only in copy    *)
(* mode and only as the first thing, before the command, whether the       *)
(* arguments are interactive or not; in copy mode no command goes without. *)
C16_PushOnlyCopyModeBeforeRun ==
    /\ Did(events, "push") =>
          /\ fn = "run_python_script"
          /\ copy_mode
          /\ events[1] = Ev("push")
          /\ \A i \in 2..Len(events) : events[i] # Ev("push")
    /\ (fn = "run_python_script" /\ copy_mode /\ Did(events, "exec")) => Did(events, "push")

(* A dispatch with --interactive in copy mode that pushed and then ran the *)
(* session.                                                                *)
C16_Witness ==
    /\ fn = "run_python_script"
    /\ copy_mode
    /\ interactive
    /\ pc = "done"
    /\ execRan
    /\ events[1] = Ev("push")

(* C17: within a dispatch the push comes after the sandbox was confirmed   *)
(* ready, and a dispatch that finds no container creates and starts it     *)
(* instead of returning None at the push.                                  *)
C17_ReadyBeforePush ==
    (fn = "run_python_script") =>
        /\ \A i \in 1..Len(events) :
               events[i] = Ev("push") => \E j \in 1..(i - 1) : events[j] = Ev("ready")
        /\ (pc = "done" /\ IsNone(cmd_result) /\ events = <<Ev("push")>>)
               => (lastProbe # "none" \/ cc.create)

(* C18: a non-interactive command that `docker exec` could not run in the  *)
(* sandbox is handed to docker exec a second time, unless the restart of   *)
(* the sandbox failed; a program that ran is not run again and its exit    *)
(* code is returned.                                                       *)
C18_RetryOnSandboxFailure ==
    LET execs == Cardinality({i \in 1..Len(events) : events[i][1] = <<"exec">>})
    IN  (fn = "run_command_in_container" /\ ~interactive /\ pc = "done" /\ execs > 0) =>
            /\ ~execRan => (execs = 2 \/ ~ret)
            /\ execRan => (execs = 1 /\ cmd_result.returncode = execRc)

(* C19: when `docker create` failed create_container() returns False, and  *)
(* start_container() does not go on to `docker start`.                     *)
C19_FailedCreateIsReported ==
    (cc.create /\ ~cc.create_ok /\ cc.returned) =>
        /\ (fn = "create_container" /\ pc = "done") => ~ret
        /\ pc \notin {"sc_start", "rc_start"}

(* C20: whatever the sequence of setup_environment(copy_mode=...) and      *)
(* dispatches, the container a push, a command or a pull is directed at was *)
(* created in the mode the manager is operating in.                        *)
C20_ModeFixedForLifetime ==
    (/\ container.state # "absent"
     /\ events # <<>>
     /\ events[Len(events)][1] \in {<<"push">>, <<"exec">>, <<"pull">>})
        => container.mode = (IF copy_mode THEN "copy" ELSE "mount")

(* C21: setup_environment(rebuild=True) returns True only when this call   *)
(* built the image anew, which it does only when the old one is gone, and  *)
(* created the container anew, which docker does only when the old one is  *)
(* gone.                                                                   *)
C21_RebuildIsFromScratch ==
    (pc = "done" /\ fn = "setup_environment" /\ rebuild.requested /\ ret)
        => (rebuild.built /\ cc.returned /\ cc.create_ok)
(* The files a pull is to bring to the host: under /workspace/, with an    *)
(* extension of the list and none of the denied pieces.                    *)
Wanted(l) ==
    /\ Present(l)
    /\ StartsWith(l, WorkspacePrefix)
    /\ \E i \in 1..Len(patterns) : l[Len(l)] = patterns[i]
    /\ \A i \in 1..Len(SkipList) : ~Contains(l, SkipList[i])

(* C22: a pull in copy mode on a running container that returned True,     *)
(* with nothing written in the sandbox since it began, has left every       *)
(* wanted sandbox file on the host with the sandbox's content.              *)
C22_PullTrueMeansAllCopied ==
    (ppc = "returned" /\ pull_ret /\ copy_mode /\ container.state = "running" /\ ~since1)
        => \A l \in Lines : Wanted(l) => host[RelPath(l)] = Content(l)

(* The same of a pull none of whose scans failed.                          *)
C22_CleanPullCopiesAll ==
    (ppc = "returned" /\ pull_ret /\ clean /\ copy_mode /\ container.state = "running"
     /\ ~since1)
        => \A l \in Lines : Wanted(l) => host[RelPath(l)] = Content(l)
(* How often an operation is in the record of a call.                      *)
Times(evs, op) == Cardinality({i \in 1..Len(evs) : evs[i][1] = <<op>>})

(* C23: when run_interactive_with_sync gives control back, by return or by *)
(* exception, then after a confirmed sandbox exactly one final pull has    *)
(* begun, after the foreground command and as the last thing, with the     *)
(* flag cleared; and without a sandbox no worker was started and no pull   *)
(* begun.                                                                  *)
C23_OneFinalPull ==
    (fn = "run_interactive_with_sync" /\ pc \in {"done", "raised"})
        => IF Did(events, "ready")
           THEN /\ Times(events, "pull") = 1
                /\ events[Len(events)] = Ev("pull")
                /\ cleared /\ ~sync_active /\ ~mainPull
           ELSE /\ ~Did(events, "pull")
                /\ nWorkers = 0 /\ wpc = "none" /\ IsNone(cmd_result)

(* The foreground command raised, and the final pull still began.          *)
C23_Witness ==
    /\ fn = "run_interactive_with_sync" /\ pc = "raised" /\ pending
    /\ events = <<Ev("ready"), Ev("pull")>>
(* The file practice/<m>/<counter as three digits>.py, in the sandbox or   *)
(* on the host.                                                            *)
SnippetPath(m, n) ==
    [dir |-> IF snip.workspace THEN "/workspace/practice" ELSE "../practice",
     module |-> m, name |-> Format03d(n)]
RECURSIVE Number(_)
Number(d) == IF d = <<>> THEN 0 ELSE 10 * Number(SubSeq(d, 1, Len(d) - 1)) + d[Len(d)]
SnippetsEnabled == snip._snippet_mode /\ snip._current_module # "None"

C25_NonZeroIsNotNone ==
    (mm.call # "none" /\ mm.ran /\ mm.returncode # 0)
        => (~IsNone(mm.result) /\ mm.result.type # "Raise"
            /\ mm.result.returncode = mm.returncode)
(* C26: a file announced as new was first copied to the host by a          *)
(* non-quiet pull, never by a quiet one.                                   *)
C26_QuietCopiesNeverAnnounced ==
    \A f \in sess.announced : sess.first[f] = "loud"
(* C27: for every module whose script ran in the sandbox, the script is    *)
(* interactive exactly when the host is, exports snippets exactly when the *)
(* host does, and was dispatched as interactive exactly when it is.        *)
C27_ModesAgree ==
    \A i \in 1..Len(log) :
        (log[i].sandbox /\ log[i].outcome.kind = "result")
            => /\ script_modes(log[i].args).interactive_mode = interactive_mode
               /\ script_modes(log[i].args)._snippet_mode = snippet_mode
               /\ dispatched_interactive(log[i].args)
                    = script_modes(log[i].args).interactive_mode
(* The cached key whose last get or put is the longest ago.                *)
LeastRecentlyTouched(c) ==
    CHOOSE k \in DOMAIN c.cache : \A j \in DOMAIN c.cache : c.touched[k] <= c.touched[j]

(* C28: the cache never holds more keys than its capacity, `order` lists   *)
(* exactly the cached keys, each once, and a put of a new key into a full  *)
(* cache removes exactly the key least recently touched by get or put.     *)
C28_LRUCache ==
    /\ [](/\ Cardinality(DOMAIN lru.cache) <= lru.capacity
          /\ SetOfSeq(lru.order) = DOMAIN lru.cache
          /\ Len(lru.order) = Cardinality(DOMAIN lru.cache))
    /\ [][\A key \in CacheKeys :
            (/\ key \notin DOMAIN lru.cache
             /\ key \in DOMAIN lru'.cache
             /\ Cardinality(DOMAIN lru.cache) = lru.capacity)
                => DOMAIN lru'.cache
                     = (DOMAIN lru.cache \ {LeastRecentlyTouched(lru)}) \cup {key}]_vars

(* A full cache of two keys in which a get made the older key the newer.   *)
C28_Witness ==
    /\ lru.capacity = 2 /\ lru.ops = 4
    /\ DOMAIN lru.cache = {"a", "c"} /\ lru.order = <<"a", "c">>
    /\ lru.touched["b"] = 2 /\ lru.touched["a"] = 3
(* C29: an OPEN breaker has failure_count >= failure_threshold; a call     *)
(* that finds the breaker OPEN before the recovery timeout has passed      *)
(* since the last failure raises and does not run the function; and a call *)
(* in HALF_OPEN ends in CLOSED with failure_count 0 when the function      *)
(* returns, and in OPEN when it raises.                                    *)
C29_CircuitBreaker ==
    /\ [](cb.state = "OPEN" => cb.failure_count >= cb.failure_threshold)
    /\ [][(/\ cb'.calls = cb.calls + 1
           /\ cb.state = "OPEN"
           /\ cb.now - cb.last_failure_time < cb.recovery_timeout)
              => (/\ cb'.outcome = "rejected" /\ cb'.pc = "idle"
                  /\ cb'.invoked = cb.invoked /\ cb'.state = "OPEN")]_vars
    /\ [][(cb.state = "HALF_OPEN" /\ cb'.invoked = cb.invoked + 1)
              => IF cb'.outcome = "returned"
                 THEN cb'.state = "CLOSED" /\ cb'.failure_count = 0
                 ELSE cb'.outcome = "raised" /\ cb'.state = "OPEN"]_vars

(* The breaker opened, was tried again after the timeout, and the trial    *)
(* failed.                                                                 *)
C29_Witness ==
    /\ cb.state = "OPEN" /\ cb.outcome = "raised"
    /\ cb.failure_count = cb.failure_threshold + 1

(* The allowed requests of the window that ends at time t: after           *)
(* t - window_seconds, up to t.                                            *)
AllowedInWindow(r, t) ==
    Cardinality({i \in 1..Len(r.allowed) :
                    r.allowed[i] > t - r.window_seconds /\ r.allowed[i] <= t})

(* C30: no window of window_seconds holds more than max_requests allowed   *)
(* requests; a request is denied only with max_requests allowed requests   *)
(* in the window that ends now; and a denied request leaves of the log     *)
(* what has not expired, and nothing else.                                 *)
C30_SlidingWindow ==
    /\ [](\A t \in 0..(MaxTime + 1) : AllowedInWindow(rl, t) <= rl.max_requests)
    /\ [][(rl'.calls = rl.calls + 1 /\ rl'.result = "False")
              => (/\ AllowedInWindow(rl, rl.now) = rl.max_requests
                  /\ rl'.allowed = rl.allowed
                  /\ rl'.requests
                       = SelectSeq(rl.requests,
                                   LAMBDA t : t > rl.now - rl.window_seconds))]_vars

(* A request denied after earlier ones had expired and later ones filled   *)
(* the window again.                                                       *)
C30_Witness ==
    /\ rl.result = "False" /\ rl.max_requests >= 1
    /\ Len(rl.allowed) > rl.max_requests
    /\ Len(rl.requests) = rl.max_requests
====
